---- MODULE Spec2Model ----
(***************************************************************************)
(* A model of nl80211.py: the byte cursor (Iterator), the write buffer     *)
(* (Accumulator), the field codecs, the attribute / attribute-set / array  *)
(* codecs, the netlink transport (Netlink) and the family registry         *)
(* (GenericNetlink).                                                       *)
(*                                                                         *)
(* Representation.                                                         *)
(*  - A byte string is a sequence of numbers 0..255.  Python indexes from  *)
(*    0, TLA+ from 1: offsets keep the Python value and the operators      *)
(*    below add 1 where they index.                                        *)
(*  - A Python integer read from or written to the wire is a sequence of   *)
(*    base-256 digits, least significant first, with no trailing zero      *)
(*    digit (0 is <<>>), so that 64-bit fields do not overflow TLC's       *)
(*    32-bit integers.  IntOf gives the number where the code does         *)
(*    arithmetic with it; it is applied to fields of 8 and 16 bits, and    *)
(*    to a field of type 'L' only once its digits are known to be few.     *)
(*    Fields are read in little-endian host order.                         *)
(*  - struct's native mode: 'L' is the platform's unsigned long, 4 bytes   *)
(*    on an ILP32 build and 8 bytes on an LP64 build, with native          *)
(*    alignment.  The variable sizeofLong is the size of the build that    *)
(*    runs; it is chosen in Init and never changes.                        *)
(*  - A dict is a function from its keys; a list is a sequence.            *)
(*  - A raised exception (AssertionError, struct.error, KeyError,          *)
(*    TypeError) is the status "fault".                                    *)
(***************************************************************************)
EXTENDS Integers, Sequences, FiniteSets, TLC

(***************************************************************************)
(* Bounds of the model.                                                    *)
(***************************************************************************)
\* number of 4-byte words of a byte buffer handed to a decoder
MaxWords == 3
\* number of attributes of a dict handed to an encoder
MaxAttrs == 2
\* number of datagrams of the socket plus number of messages in them
MaxItems == 4
\* number of messages a caller takes from a Recv sequence
MaxYields == 3
\* the most messages in the response to the request of the bootstrap
MaxResponses == 2
\* the most names in the flags of a Send
MaxFlags == 2
\* the most families in the response to the bootstrap of a registry
MaxFamilies == 2
\* the most calls a client makes on the object
MaxCalls == 2

(***************************************************************************)
(* Python helpers.                                                         *)
(***************************************************************************)
Min(a, b) == IF a <= b THEN a ELSE b
Max(a, b) == IF a >= b THEN a ELSE b

\* data[a:b] of Python, a and b being any integers
PyIndex(i, n) == IF i < 0 THEN Max(i + n, 0) ELSE Min(i, n)
Slice(data, a, b) ==
  LET lo == PyIndex(a, Len(data))
      hi == PyIndex(b, Len(data))
  IN  IF hi <= lo THEN <<>> ELSE SubSeq(data, lo + 1, hi)

\* chr(0) * n
RECURSIVE Zeros(_)
Zeros(n) == IF n <= 0 THEN <<>> ELSE <<0>> \o Zeros(n - 1)

\* dict.update that keeps the value a key already has
UpdateKeepsFirst(d, e) ==
  [k \in (DOMAIN d) \cup (DOMAIN e) |-> IF k \in DOMAIN d THEN d[k] ELSE e[k]]

\* dict.update
Update(d, e) ==
  [k \in (DOMAIN d) \cup (DOMAIN e) |-> IF k \in DOMAIN e THEN e[k] ELSE d[k]]

\* the number a digit sequence stands for
RECURSIVE IntOf(_)
IntOf(d) == IF d = <<>> THEN 0 ELSE d[1] + 256 * IntOf(Tail(d))

RECURSIVE DigitsOf(_)
DigitsOf(n) == IF n = 0 THEN <<>> ELSE <<n % 256>> \o DigitsOf(n \div 256)

RECURSIVE Normal(_)
Normal(d) ==
  IF d = <<>> THEN <<>>
  ELSE IF d[Len(d)] = 0 THEN Normal(SubSeq(d, 1, Len(d) - 1)) ELSE d

(***************************************************************************)
(* struct.Struct in native mode.                                           *)
(***************************************************************************)
FieldSize(c, long) ==
  CASE c = "B" -> 1
    [] c = "H" -> 2
    [] c = "L" -> long
    [] c = "Q" -> 8

AlignUp(o, s) == ((o + s - 1) \div s) * s

\* the offset just after field n of the format
RECURSIVE FieldEnd(_, _, _)
FieldEnd(fmt, n, long) ==
  IF n = 0 THEN 0
  ELSE AlignUp(FieldEnd(fmt, n - 1, long), FieldSize(fmt[n], long))
         + FieldSize(fmt[n], long)

FieldStart(fmt, n, long) ==
  AlignUp(FieldEnd(fmt, n - 1, long), FieldSize(fmt[n], long))

calcsize(fmt, long) == FieldEnd(fmt, Len(fmt), long)

\* struct.unpack_from(data, offset): struct.error when the buffer is short
unpack_from_ok(fmt, long, data, offset) ==
  Len(data) - offset >= calcsize(fmt, long)

unpack_from(fmt, long, data, offset) ==
  [n \in 1..Len(fmt) |->
     Normal(SubSeq(data, offset + FieldStart(fmt, n, long) + 1,
                         offset + FieldEnd(fmt, n, long)))]

\* struct.pack(*values): struct.error when a value does not fit its field
pack_ok(fmt, long, values) ==
  /\ Len(values) = Len(fmt)
  /\ \A n \in 1..Len(fmt) : Len(values[n]) <= FieldSize(fmt[n], long)

RECURSIVE pack_upto(_, _, _, _)
pack_upto(fmt, long, values, n) ==
  IF n = 0 THEN <<>>
  ELSE LET before == pack_upto(fmt, long, values, n - 1)
       IN  before
           \o Zeros(FieldStart(fmt, n, long) - Len(before))
           \o values[n]
           \o Zeros(FieldSize(fmt[n], long) - Len(values[n]))

pack(fmt, long, values) == pack_upto(fmt, long, values, Len(fmt))

(***************************************************************************)
(* The codecs of the source, by name.                                      *)
(***************************************************************************)
SingleStructParsers == {"u8", "u16", "u32", "u64"}
StructParsers == {"sta_flags"}
AttributesParsers ==
  {"_op_attr", "_mcast_grp_attr", "_ctrl_attr",
   "rate_info", "bss_param", "sta_info", "nl80211_attr"}
ArrayParsers == {"ops", "mcast_groups"}

Class(p) ==
  CASE p \in SingleStructParsers -> "SingleStructParser"
    [] p \in StructParsers -> "StructParser"
    [] p = "string" -> "StringParser"
    [] p = "flag" -> "EmptyParser"
    [] p \in AttributesParsers -> "Attributes"
    [] p \in ArrayParsers -> "Array"

\* the format string of a struct codec
Format(p) ==
  CASE p = "u8" -> <<"B">>
    [] p = "u16" -> <<"H">>
    [] p = "u32" -> <<"L">>
    [] p = "u64" -> <<"Q">>
    [] p = "sta_flags" -> <<"L", "L">>
    [] p = "_nlattr" -> <<"H", "H">>
    [] p = "_arrayhdr" -> <<"H", "H">>
    [] p = "_genlmsghdr" -> <<"B", "B", "H">>
    [] p = "_nlmsghdr" -> <<"L", "H", "H", "L", "L">>

\* the field names of a StructParser
Fields(p) ==
  CASE p = "sta_flags" -> <<"mask", "values">>
    [] p = "_nlattr" -> <<"len", "type">>
    [] p = "_arrayhdr" -> <<"len", "index">>
    [] p = "_genlmsghdr" -> <<"cmd", "version", "reserved">>
    [] p = "_nlmsghdr" -> <<"length", "type", "flags", "seq", "pid">>

\* the attribute table of an Attributes codec: type -> <<name, codec>>
Table(p) ==
  CASE p = "_op_attr" ->
         (1 :> <<"id", "u32">>) @@ (2 :> <<"flags", "u32">>)
    [] p = "_mcast_grp_attr" ->
         (1 :> <<"name", "string">>) @@ (2 :> <<"id", "u32">>)
    [] p = "_ctrl_attr" ->
         (1 :> <<"family_id", "u16">>) @@ (2 :> <<"family_name", "string">>)
         @@ (3 :> <<"version", "u32">>) @@ (4 :> <<"hdrsize", "u32">>)
         @@ (5 :> <<"maxattr", "u32">>) @@ (6 :> <<"ops", "ops">>)
         @@ (7 :> <<"mcast_groups", "mcast_groups">>)
    [] p = "rate_info" ->
         (1 :> <<"bitrate", "u16">>) @@ (2 :> <<"mcs", "u8">>)
         @@ (4 :> <<"short_gi", "flag">>) @@ (5 :> <<"bitrate32", "u32">>)
         @@ (9 :> <<"80p80_mhz_width", "u32">>)
         @@ (10 :> <<"160_mhz_width", "u32">>)
    [] p = "bss_param" ->
         (2 :> <<"short_preamble", "flag">>)
         @@ (3 :> <<"short_slot_time", "flag">>)
         @@ (4 :> <<"dtim_period", "u8">>)
         @@ (5 :> <<"beacon_interval", "u16">>)
    [] p = "sta_info" ->
         (1 :> <<"inactive_time", "u32">>) @@ (2 :> <<"rx_bytes", "u32">>)
         @@ (3 :> <<"tx_bytes", "u32">>) @@ (7 :> <<"signal", "u8">>)
         @@ (8 :> <<"tx_bitrate", "rate_info">>)
         @@ (9 :> <<"rx_packets", "u32">>) @@ (10 :> <<"tx_packets", "u32">>)
         @@ (11 :> <<"tx_retries", "u32">>) @@ (12 :> <<"tx_failed", "u32">>)
         @@ (13 :> <<"signal_avg", "u8">>)
         @@ (14 :> <<"rx_bitrate", "rate_info">>)
         @@ (15 :> <<"bss_param", "bss_param">>)
         @@ (16 :> <<"connected_time", "u32">>)
         @@ (17 :> <<"sta_flags", "sta_flags">>)
         @@ (18 :> <<"beacon_loss", "u32">>)
         @@ (23 :> <<"rx_bytes_64", "u64">>)
         @@ (24 :> <<"tx_bytes_64", "u64">>)
    [] p = "nl80211_attr" ->
         (3 :> <<"ifindex", "u32">>) @@ (6 :> <<"mac", "string">>)
         @@ (21 :> <<"sta_info", "sta_info">>)
         @@ (46 :> <<"generation", "u32">>)

\* the child codec of an Array codec
Child(p) ==
  CASE p = "ops" -> "_op_attr"
    [] p = "mcast_groups" -> "_mcast_grp_attr"

\* Attributes._attribute_idx: name -> type
AttributeIdx(p) ==
  [name \in {Table(p)[t][1] : t \in DOMAIN Table(p)} |->
     CHOOSE t \in DOMAIN Table(p) : Table(p)[t][1] = name]

(***************************************************************************)
(* Iterator: a cursor is the record of its fields offset and length (the   *)
(* field the source calls length is the end position in the buffer); the   *)
(* buffer it reads is the variable data.                                   *)
(***************************************************************************)
\* the assertion of Iterator.__init__
IteratorOk(data, offset, length) == length <= Len(data)
Iterator(data, offset, length) == [offset |-> offset, length |-> length]

Remaining(it) == it.length - it.offset
AtEnd(it) == Remaining(it) = 0

\* the assertion of Advance, and its effect
AdvanceOk(it, offset_incr) == offset_incr <= Remaining(it)
Advance(it, offset_incr) == [it EXCEPT !.offset = @ + offset_incr]

\* Extract: the assertion, the bytes returned, the cursor afterwards
ExtractOk(it, length) == length <= Remaining(it) /\ AdvanceOk(it, length)
Extract(data, it, length) == Slice(data, it.offset, it.offset + length)

\* ExtractIterator: the assertions, the new cursor; the parent is advanced
ExtractIteratorOk(data, it, length) ==
  /\ length <= Remaining(it)
  /\ IteratorOk(data, it.offset, it.offset + length)
  /\ AdvanceOk(it, length)
ExtractIterator(data, it, length) ==
  Iterator(data, it.offset, it.offset + length)

(***************************************************************************)
(* The field codecs.  Unpack gives the record of ok (no exception), val    *)
(* (the value returned) and it (the cursor afterwards).                    *)
(***************************************************************************)
SingleStructParserUnpack(p, long, data, it) ==
  LET size == calcsize(Format(p), long)
      values == unpack_from(Format(p), long, data, it.offset)
  IN  IF unpack_from_ok(Format(p), long, data, it.offset)
         /\ AdvanceOk(it, size) /\ Len(values) = 1
      THEN [ok |-> TRUE, val |-> values[1], it |-> Advance(it, size)]
      ELSE [ok |-> FALSE, val |-> <<>>, it |-> it]

StructParserUnpack(p, long, data, it) ==
  LET size == calcsize(Format(p), long)
      values == unpack_from(Format(p), long, data, it.offset)
      names == Fields(p)
  IN  IF unpack_from_ok(Format(p), long, data, it.offset) /\ AdvanceOk(it, size)
      THEN [ok |-> TRUE,
            val |-> [f \in {names[i] : i \in DOMAIN names} |->
                       values[CHOOSE i \in DOMAIN names : names[i] = f]],
            it |-> Advance(it, size)]
      ELSE [ok |-> FALSE, val |-> <<>>, it |-> it]

StringParserUnpack(data, it) ==
  IF ExtractOk(it, Remaining(it))
  THEN [ok |-> TRUE, val |-> Extract(data, it, Remaining(it)),
        it |-> Advance(it, Remaining(it))]
  ELSE [ok |-> FALSE, val |-> <<>>, it |-> it]

EmptyParserUnpack(data, it) == [ok |-> TRUE, val |-> TRUE, it |-> it]

\* sub_parser.Unpack(iterator) for a codec that calls no other codec
LeafUnpack(p, long, data, it) ==
  CASE Class(p) = "SingleStructParser" -> SingleStructParserUnpack(p, long, data, it)
    [] Class(p) = "StructParser" -> StructParserUnpack(p, long, data, it)
    [] Class(p) = "StringParser" -> StringParserUnpack(data, it)
    [] Class(p) = "EmptyParser" -> EmptyParserUnpack(data, it)

IsLeaf(p) == Class(p) \notin {"Attributes", "Array"}

\* Padding with 4 added in place of 4 - 1
PaddingAddsFour(len) == ((len + 4) \div 4) * 4 - len

\* padding = ((len + 4 - 1) & ~3) - len
Padding(len) == ((len + 4 - 1) \div 4) * 4 - len

(***************************************************************************)
(* Accumulator: the list of the parts appended.                            *)
(***************************************************************************)
RECURSIVE AccumulatorLen(_)
AccumulatorLen(acc) ==
  IF acc = <<>> THEN 0 ELSE Len(acc[1]) + AccumulatorLen(Tail(acc))

\* str(accumulator)
RECURSIVE AccumulatorStr(_)
AccumulatorStr(acc) ==
  IF acc = <<>> THEN <<>> ELSE acc[1] \o AccumulatorStr(Tail(acc))

(***************************************************************************)
(* Pack.  Each gives the record of ok (no exception) and acc (the          *)
(* accumulator afterwards).                                                *)
(***************************************************************************)
SingleStructParserPack(p, long, acc, value) ==
  IF pack_ok(Format(p), long, <<value>>)
  THEN [ok |-> TRUE, acc |-> Append(acc, pack(Format(p), long, <<value>>))]
  ELSE [ok |-> FALSE, acc |-> acc]

\* Pack(accumulator, **values): KeyError when a field is not given
StructParserPack(p, long, acc, values) ==
  LET names == Fields(p)
      ordered_values == [i \in DOMAIN names |-> values[names[i]]]
  IN  IF (\A i \in DOMAIN names : names[i] \in DOMAIN values)
         /\ pack_ok(Format(p), long, ordered_values)
      THEN [ok |-> TRUE, acc |-> Append(acc, pack(Format(p), long, ordered_values))]
      ELSE [ok |-> FALSE, acc |-> acc]

StringParserPack(acc, value) == [ok |-> TRUE, acc |-> Append(acc, value)]

EmptyParserPack(acc, value) == [ok |-> TRUE, acc |-> acc]

\* sub_parser.Pack(sub_accumulator, value), the value given positionally:
\* StructParser.Pack and Attributes.Pack take keyword arguments only
\* (TypeError) and Array has no Pack (AttributeError)
PositionalPack(p, long, acc, value) ==
  CASE Class(p) = "SingleStructParser" -> SingleStructParserPack(p, long, acc, value)
    [] Class(p) = "StringParser" -> StringParserPack(acc, value)
    [] Class(p) = "EmptyParser" -> EmptyParserPack(acc, value)
    [] Class(p) = "StructParser" -> [ok |-> FALSE, acc |-> acc]
    [] Class(p) = "Attributes" -> [ok |-> FALSE, acc |-> acc]
    [] Class(p) = "Array" -> [ok |-> FALSE, acc |-> acc]

\* Attribute.Pack(accumulator, attrtype, value) of the Attribute of table p
AttributePack(p, long, acc, attrtype, value) ==
  IF attrtype \notin DOMAIN Table(p) THEN [ok |-> FALSE, acc |-> acc]
  ELSE
    LET sub_parser == Table(p)[attrtype][2]
        sub == PositionalPack(sub_parser, long, <<>>, value)
        attrlen == calcsize(Format("_nlattr"), long) + AccumulatorLen(sub.acc)
        hdr == StructParserPack("_nlattr", long, acc,
                                [len |-> DigitsOf(attrlen), type |-> DigitsOf(attrtype)])
        padding == Padding(attrlen)
        body == Append(hdr.acc, AccumulatorStr(sub.acc))
    IN  IF ~sub.ok \/ ~hdr.ok THEN [ok |-> FALSE, acc |-> acc]
        ELSE [ok |-> TRUE,
              acc |-> IF padding # 0 THEN Append(body, Zeros(padding)) ELSE body]

\* Attributes.Pack(accumulator, **attrs): order is the order in which
\* attrs.iteritems() gives the entries, which the dict decides
RECURSIVE AttributesPackFrom(_, _, _, _, _, _)
AttributesPackFrom(p, long, acc, attrs, order, i) ==
  IF i > Len(order) THEN [ok |-> TRUE, acc |-> acc]
  ELSE IF order[i] \notin DOMAIN AttributeIdx(p) THEN [ok |-> FALSE, acc |-> acc]
  ELSE LET r == AttributePack(p, long, acc, AttributeIdx(p)[order[i]], attrs[order[i]])
       IN  IF ~r.ok THEN [ok |-> FALSE, acc |-> acc]
           ELSE AttributesPackFrom(p, long, r.acc, attrs, order, i + 1)

AttributesPack(p, long, acc, attrs, order) ==
  AttributesPackFrom(p, long, acc, attrs, order, 1)

\* the orders in which a dict with the keys S can be iterated
IterOrders(S) ==
  {o \in [1..Cardinality(S) -> S] : \A k \in S : \E i \in 1..Cardinality(S) : o[i] = k}

(***************************************************************************)
(* State.                                                                  *)
(***************************************************************************)
VARIABLES
  sizeofLong,  \* struct.calcsize('L') of the build: 4 or 8
  parser,      \* the codec whose Pack and Unpack are called
  flow,        \* "pack-unpack": Pack(attrs), then Unpack of the bytes;
               \* "unpack-pack": Unpack(data), then Pack of the result
  attrs,       \* the keyword arguments handed to Attributes.Pack
  accumulator, \* the Accumulator that Pack has filled
  packed,      \* "no", "yes" (Pack returned) or "fault" (Pack raised)
  data,        \* the byte buffer the cursors read (Iterator.data)
  iters,       \* the live Iterator objects, in order of creation
  stack,       \* the call stack of the decoder: one frame per Unpack call
  status,      \* of Unpack: "idle", "running", "done" (returned) or
               \* "fault" (exception raised)
  result,      \* the value returned by the outermost Unpack
  sock,        \* the socket: the datagrams the kernel has queued, each the
               \* list of the messages in it, in the order recv returns them
  nl,          \* the place of the Netlink.Recv generator: "created", "recv"
               \* (at the recv call), "inner" (at the inner while),
               \* "yielded" (suspended at yield), "resumed" (after yield),
               \* "done" (returned) or "fault" (raised)
  myhdr,       \* the header Netlink.Recv unpacked last
  yielded,     \* the messages Netlink.Recv has yielded
  reads,       \* the number of recv calls that have returned
  readsInPull, \* those since the caller last asked for the next element
  stopped,     \* the caller has been told the sequence is over
  msgtypes,    \* GenericNetlink._msgtypes: the list of the descriptors
  msgtypes_by_id,   \* the id index: id -> place of the descriptor in the list
  msgtypes_by_name, \* the name index: name -> place of the descriptor
  ctor,        \* the place of GenericNetlink.__init__: "new", "for" (at the
               \* for statement), "wait" (in next() of self.Recv()), "ready"
               \* (returned) or "fault" (raised)
  gnl,         \* the place of the GenericNetlink.Recv generator: "created",
               \* "next" (in next() of Netlink.Recv), "unpack" (in
               \* parser.Unpack), "yielded", "done" or "fault"
  genlhdr,     \* the header GenericNetlink.Recv unpacked last
  msg,         \* the (cmd, attrs) GenericNetlink.Recv yielded last
  sent,        \* the datagrams written to the socket
  attrlen,     \* the attribute length whose padding is computed:
               \* nlattr['len'] of Attribute.Unpack, attrlen of Attribute.Pack
  padbytes,    \* the padding computed for it
  padpath,     \* who computed it: "start" (nobody yet), "Unpack" or "Pack"
  call,        \* the method the caller has called last, with its arguments
  outcome,     \* of that call: "none" (not made), "returned" or "raised"
  recvOf,      \* the datagrams sent when the generator of self.Recv() was made
  recvBy       \* the method that made it: "__init__", "Query" or "Recv"

codecVars == <<parser, flow, attrs, accumulator, packed>>
decVars == <<stack, status, result>>
nlVars == <<sock, nl, myhdr, yielded, reads, readsInPull, stopped>>
registry == <<msgtypes, msgtypes_by_id, msgtypes_by_name>>
gnlVars == <<registry, ctor, gnl, genlhdr, msg, sent>>
padVars == <<attrlen, padbytes, padpath>>
apiVars == <<call, outcome, recvOf, recvBy>>

\* the variables the decoder's steps leave alone
others == <<sizeofLong, padVars, apiVars, codecVars, nlVars, gnlVars>>

vars == <<others, data, iters, stack, status, result>>

\* A frame: the method (fn), the place in it (pc), the codec (p), the index
\* in iters of the cursor it was given (it) and of the sub-cursor it made
\* (sub), the header it read (len, type), the attribute name, the value it
\* is building (ret).
Frame(fn, pc, p, it) ==
  [fn |-> fn, pc |-> pc, p |-> p, it |-> it, sub |-> 0,
   len |-> 0, type |-> 0, name |-> "", ret |-> <<>>]

Top == stack[Len(stack)]
SetTop(f) == [stack EXCEPT ![Len(stack)] = f]

\* the call parser.Unpack(iterator) of a codec that calls other codecs
Call(p, it) == Frame(Class(p), "loop", p, it)

\* the caller's frame once the callee has returned v
Resume(c, v) ==
  CASE c.fn = "Attributes" -> [c EXCEPT !.ret = Update(@, v)]
    [] c.fn = "Attribute" -> [c EXCEPT !.ret = (c.name :> v), !.pc = "check"]
    [] c.fn = "Array" -> [c EXCEPT !.ret = Append(@, v), !.pc = "check"]

\* the stack after the top frame has returned v
Returned(v) ==
  LET rest == SubSeq(stack, 1, Len(stack) - 1)
  IN  IF Len(rest) = 0 THEN rest
      ELSE [rest EXCEPT ![Len(rest)] = Resume(rest[Len(rest)], v)]

Return(v) ==
  /\ stack' = Returned(v)
  /\ status' = IF Len(stack) = 1 THEN "done" ELSE status
  /\ result' = IF Len(stack) = 1 THEN v ELSE result

Fault ==
  /\ status' = "fault"
  /\ UNCHANGED <<stack, result>>

(***************************************************************************)
(* Attributes.Unpack: one turn of the loop.                                *)
(***************************************************************************)
AttributesUnpack ==
  /\ status = "running" /\ Len(stack) > 0
  /\ Top.fn = "Attributes"
  /\ IF AtEnd(iters[Top.it])
     THEN Return(Top.ret)
     ELSE /\ stack' = Append(stack, Frame("Attribute", "header", Top.p, Top.it))
          /\ UNCHANGED <<status, result>>
  /\ UNCHANGED <<data, iters, others>>

(***************************************************************************)
(* Attribute.Unpack.                                                       *)
(***************************************************************************)
\* nlattr = self._nlattr.Unpack(iterator); look the type up
AttributeHeader ==
  /\ status = "running" /\ Len(stack) > 0
  /\ Top.fn = "Attribute" /\ Top.pc = "header"
  /\ LET r == StructParserUnpack("_nlattr", sizeofLong, data, iters[Top.it])
         type == IntOf(r.val["type"])
     IN  IF ~r.ok
         THEN Fault /\ UNCHANGED iters
         ELSE /\ iters' = [iters EXCEPT ![Top.it] = r.it]
              /\ IF type \notin DOMAIN Table(Top.p)
                 THEN Fault
                 ELSE /\ stack' = SetTop([Top EXCEPT
                                            !.pc = "extract",
                                            !.len = IntOf(r.val["len"]),
                                            !.type = type,
                                            !.name = Table(Top.p)[type][1]])
                      /\ UNCHANGED <<status, result>>
  /\ UNCHANGED <<data, others>>

\* sub_iterator = iterator.ExtractIterator(nlattr['len'] - self._nlattr.size)
AttributeExtract ==
  /\ status = "running" /\ Len(stack) > 0
  /\ Top.fn = "Attribute" /\ Top.pc = "extract"
  /\ LET sub_len == Top.len - calcsize(Format("_nlattr"), sizeofLong)
         it == iters[Top.it]
     IN  IF ~ExtractIteratorOk(data, it, sub_len)
         THEN Fault /\ UNCHANGED iters
         ELSE /\ iters' = Append([iters EXCEPT ![Top.it] = Advance(it, sub_len)],
                                 ExtractIterator(data, it, sub_len))
              /\ stack' = SetTop([Top EXCEPT !.pc = "unpack",
                                             !.sub = Len(iters) + 1])
              /\ UNCHANGED <<status, result>>
  /\ UNCHANGED <<data, others>>

\* ret = {name: sub_parser.Unpack(sub_iterator)}
AttributeValue ==
  /\ status = "running" /\ Len(stack) > 0
  /\ Top.fn = "Attribute" /\ Top.pc = "unpack"
  /\ LET sub_parser == Table(Top.p)[Top.type][2]
     IN  IF IsLeaf(sub_parser)
         THEN LET r == LeafUnpack(sub_parser, sizeofLong, data, iters[Top.sub])
              IN  IF ~r.ok
                  THEN Fault /\ UNCHANGED iters
                  ELSE /\ iters' = [iters EXCEPT ![Top.sub] = r.it]
                       /\ stack' = SetTop([Top EXCEPT !.pc = "check",
                                                      !.ret = (Top.name :> r.val)])
                       /\ UNCHANGED <<status, result>>
         ELSE /\ stack' = Append(SetTop([Top EXCEPT !.pc = "call"]),
                                 Call(sub_parser, Top.sub))
              /\ UNCHANGED <<status, result, iters>>
  /\ UNCHANGED <<data, others>>

\* assert sub_iterator.AtEnd(); iterator.Advance(padding); return ret
AttributeReturn ==
  /\ status = "running" /\ Len(stack) > 0
  /\ Top.fn = "Attribute" /\ Top.pc = "check"
  /\ LET padding == Padding(Top.len)
         it == iters[Top.it]
     IN  IF ~AtEnd(iters[Top.sub]) \/ ~AdvanceOk(it, padding)
         THEN Fault /\ UNCHANGED iters
         ELSE /\ iters' = SubSeq([iters EXCEPT ![Top.it] = Advance(it, padding)],
                                 1, Top.sub - 1)
              /\ Return(Top.ret)
  /\ UNCHANGED <<data, others>>

(***************************************************************************)
(* Array.Unpack.                                                           *)
(***************************************************************************)
\* while not iterator.AtEnd(): hdr = self._arrayhdr.Unpack(iterator)
ArrayUnpack ==
  /\ status = "running" /\ Len(stack) > 0
  /\ Top.fn = "Array" /\ Top.pc = "loop"
  /\ IF AtEnd(iters[Top.it])
     THEN Return(Top.ret) /\ UNCHANGED iters
     ELSE LET r == StructParserUnpack("_arrayhdr", sizeofLong, data, iters[Top.it])
          IN  IF ~r.ok
              THEN Fault /\ UNCHANGED iters
              ELSE /\ iters' = [iters EXCEPT ![Top.it] = r.it]
                   /\ stack' = SetTop([Top EXCEPT !.pc = "extract",
                                                  !.len = IntOf(r.val["len"])])
                   /\ UNCHANGED <<status, result>>
  /\ UNCHANGED <<data, others>>

\* sub_iterator = iterator.ExtractIterator(hdr['len'] - self._arrayhdr.size)
ArrayExtract ==
  /\ status = "running" /\ Len(stack) > 0
  /\ Top.fn = "Array" /\ Top.pc = "extract"
  /\ LET sub_len == Top.len - calcsize(Format("_arrayhdr"), sizeofLong)
         it == iters[Top.it]
     IN  IF ~ExtractIteratorOk(data, it, sub_len)
         THEN Fault /\ UNCHANGED iters
         ELSE /\ iters' = Append([iters EXCEPT ![Top.it] = Advance(it, sub_len)],
                                 ExtractIterator(data, it, sub_len))
              /\ stack' = SetTop([Top EXCEPT !.pc = "unpack",
                                             !.sub = Len(iters) + 1])
              /\ UNCHANGED <<status, result>>
  /\ UNCHANGED <<data, others>>

\* ret.append(self._child.Unpack(sub_iterator))
ArrayValue ==
  /\ status = "running" /\ Len(stack) > 0
  /\ Top.fn = "Array" /\ Top.pc = "unpack"
  /\ LET child == Child(Top.p)
     IN  IF IsLeaf(child)
         THEN LET r == LeafUnpack(child, sizeofLong, data, iters[Top.sub])
              IN  IF ~r.ok
                  THEN Fault /\ UNCHANGED iters
                  ELSE /\ iters' = [iters EXCEPT ![Top.sub] = r.it]
                       /\ stack' = SetTop([Top EXCEPT !.pc = "check",
                                                      !.ret = Append(@, r.val)])
                       /\ UNCHANGED <<status, result>>
         ELSE /\ stack' = Append(SetTop([Top EXCEPT !.pc = "call"]),
                                 Call(child, Top.sub))
              /\ UNCHANGED <<status, result, iters>>
  /\ UNCHANGED <<data, others>>

\* assert sub_iterator.AtEnd()
ArrayCheck ==
  /\ status = "running" /\ Len(stack) > 0
  /\ Top.fn = "Array" /\ Top.pc = "check"
  /\ IF ~AtEnd(iters[Top.sub])
     THEN Fault /\ UNCHANGED iters
     ELSE /\ iters' = SubSeq(iters, 1, Top.sub - 1)
          /\ stack' = SetTop([Top EXCEPT !.pc = "loop"])
          /\ UNCHANGED <<status, result>>
  /\ UNCHANGED <<data, others>>

Unpack ==
  \/ AttributesUnpack
  \/ AttributeHeader
  \/ AttributeExtract
  \/ AttributeValue
  \/ AttributeReturn
  \/ ArrayUnpack
  \/ ArrayExtract
  \/ ArrayValue
  \/ ArrayCheck

(***************************************************************************)
(* Attributes.Pack(accumulator, **attrs) of the codec, on a fresh          *)
(* Accumulator; in the flow "pack-unpack" the bytes are then handed to     *)
(* Unpack.                                                                 *)
(***************************************************************************)
Pack ==
  /\ packed = "no"
  /\ status = (IF flow = "pack-unpack" THEN "idle" ELSE "done")
  /\ LET value == IF flow = "pack-unpack" THEN attrs ELSE result
     IN  IF Class(parser) # "Attributes"
         THEN /\ packed' = "fault"
              /\ UNCHANGED <<attrs, accumulator, data, iters, stack, status>>
         ELSE \E order \in IterOrders(DOMAIN value) :
                LET r == AttributesPack(parser, sizeofLong, <<>>, value, order)
                IN  /\ attrs' = value
                    /\ accumulator' = r.acc
                    /\ packed' = IF r.ok THEN "yes" ELSE "fault"
                    /\ IF r.ok /\ flow = "pack-unpack"
                       THEN /\ data' = AccumulatorStr(r.acc)
                            /\ iters' = <<Iterator(data', 0, Len(data'))>>
                            /\ stack' = <<Call(parser, 1)>>
                            /\ status' = "running"
                       ELSE UNCHANGED <<data, iters, stack, status>>
  /\ UNCHANGED <<sizeofLong, padVars, apiVars, parser, flow, result, nlVars, gnlVars>>

(***************************************************************************)
(* The inputs: the build, and either a byte buffer of at most MaxWords     *)
(* words to decode or a dict of at most MaxAttrs legal values to encode.   *)
(***************************************************************************)
LongSizes == {4, 8}

\* a 4-byte word holding two 16-bit numbers: an attribute or array header
Word(len, type) == <<len % 256, len \div 256, type % 256, type \div 256>>

RECURSIVE WordSeqs(_, _)
WordSeqs(W, n) ==
  IF n = 0 THEN {<<>>}
  ELSE WordSeqs(W, n - 1)
         \cup {w \o s : w \in W, s \in {t \in WordSeqs(W, n - 1) : Len(t) = 4 * (n - 1)}}

\* the lengths and types the words of a buffer are drawn from
HeaderLens == {0, 4, 5, 8, 12}
HeaderTypes(root) ==
  CASE root = "nl80211_attr" -> {3, 6, 21}
    [] root = "sta_info" -> {4, 8, 17}
    [] root = "ops" -> {1}

UnpackRoots == {"nl80211_attr", "sta_info", "ops"}

Buffers(root) ==
  WordSeqs({Word(l, t) : l \in HeaderLens, t \in HeaderTypes(root)}, MaxWords)

\* legal values of a codec
Values(p) ==
  CASE p = "u8" -> {<<>>, <<255>>}
    [] p = "u16" -> {<<1>>, <<0, 1>>}
    [] p = "u32" -> {<<>>, <<4, 3, 2, 1>>}
    [] p = "u64" -> {<<1>>, <<1, 2, 3, 4, 5, 6, 7, 8>>}
    [] p = "string" -> {<<>>, <<1, 2, 3>>, <<65, 0>>}
    [] p = "flag" -> {TRUE}
    [] p = "sta_flags" -> {[mask |-> <<1>>, values |-> <<0, 1>>]}
    [] p = "rate_info" -> {("mcs" :> <<7>>)}
    [] p = "sta_info" -> {("signal" :> <<7>>)}

\* the attribute names the dicts to encode are drawn from
PackNames(root) ==
  CASE root = "nl80211_attr" -> {"ifindex", "mac", "sta_info"}
    [] root = "sta_info" -> {"signal", "sta_flags", "rx_bytes_64", "tx_bitrate"}
    [] root = "rate_info" -> {"bitrate", "short_gi"}

PackRoots == {"nl80211_attr", "sta_info", "rate_info"}

CodecOf(root, name) == Table(root)[AttributeIdx(root)[name]][2]

RECURSIVE DictsOver(_, _)
DictsOver(root, S) ==
  IF S = {} THEN {<<>>}
  ELSE LET n == CHOOSE x \in S : TRUE
       IN  {Update(d, n :> v) : d \in DictsOver(root, S \ {n}),
                                v \in Values(CodecOf(root, n))}

LegalAttrs(root) ==
  UNION {DictsOver(root, S) :
           S \in {T \in SUBSET PackNames(root) : Cardinality(T) <= MaxAttrs}}

InitCodec ==
  /\ sizeofLong \in LongSizes
  /\ packed = "no"
  /\ accumulator = <<>>
  /\ result = <<>>
  /\ \/ /\ flow = "unpack-pack"
        /\ parser \in UnpackRoots
        /\ data \in Buffers(parser)
        /\ iters = <<Iterator(data, 0, Len(data))>>
        /\ stack = <<Call(parser, 1)>>
        /\ status = "running"
        /\ attrs = <<>>
     \/ /\ flow = "pack-unpack"
        /\ parser \in PackRoots
        /\ attrs \in LegalAttrs(parser)
        /\ data = <<>>
        /\ iters = <<>>
        /\ stack = <<>>
        /\ status = "idle"
  /\ sock = <<>> /\ nl = "created" /\ myhdr = <<>> /\ yielded = <<>>
  /\ reads = 0 /\ readsInPull = 0 /\ stopped = FALSE
  /\ msgtypes = <<>> /\ msgtypes_by_id = <<>> /\ msgtypes_by_name = <<>>
  /\ ctor = "none" /\ gnl = "none" /\ genlhdr = <<>> /\ msg = <<>> /\ sent = <<>>
  /\ attrlen = 0 /\ padbytes = 0 /\ padpath = "none"
  /\ call = <<>> /\ outcome = "none" /\ recvOf = 0 /\ recvBy = "__init__"

NextCodec == Pack \/ Unpack

SpecCodec == InitCodec /\ [][NextCodec]_vars

(***************************************************************************)
(* Netlink.Recv, a generator.  data is its datagram, iters[1] its cursor,  *)
(* iters[2] the payload cursor it yielded last.                            *)
(***************************************************************************)
NLMSG_F_MULTI == 2
NLMSG_DONE == 3

\* flags & mask, for a mask of one bit
BitSet(flags, mask) == (flags \div mask) % 2 = 1

\* the bytes of a message: the header as self._nlmsghdr lays it out, then
\* the payload
MessageBytes(m, long) ==
  pack(Format("_nlmsghdr"), long,
       <<DigitsOf(m.length), DigitsOf(m.type), DigitsOf(m.flags), <<>>, <<>>>>)
    \o m.payload

RECURSIVE DatagramBytes(_, _)
DatagramBytes(d, long) ==
  IF d = <<>> THEN <<>>
  ELSE MessageBytes(d[1], long) \o DatagramBytes(Tail(d), long)

\* data = self._sock.recv(4096); iterator = Iterator(data)
RecvSock ==
  /\ nl = "recv"
  /\ reads < Len(sock)
  /\ data' = DatagramBytes(sock[reads + 1], sizeofLong)
  /\ iters' = <<Iterator(data', 0, Len(data'))>>
  /\ reads' = reads + 1
  /\ readsInPull' = readsInPull + 1
  /\ nl' = "inner"
  /\ UNCHANGED <<sizeofLong, padVars, apiVars, codecVars, decVars, gnlVars, sock, myhdr, yielded, stopped>>

\* while not iterator.AtEnd(): unpack the header; return on NLMSG_DONE;
\* yield (type, payload cursor)
RecvFrame ==
  /\ nl = "inner"
  /\ LET it == iters[1]
         r == StructParserUnpack("_nlmsghdr", sizeofLong, data, it)
         type == IntOf(r.val["type"])
         sub_len == IntOf(r.val["length"]) - calcsize(Format("_nlmsghdr"), sizeofLong)
         \* data is what recv(4096) gave: a length field of more than two
         \* digits leaves no sub-cursor that passes the assertion of Iterator
         fits == Len(r.val["length"]) <= 2
     IN  IF AtEnd(it)
         THEN nl' = "recv" /\ UNCHANGED <<iters, myhdr, yielded>>
         ELSE IF ~r.ok
         THEN nl' = "fault" /\ UNCHANGED <<iters, myhdr, yielded>>
         ELSE IF type = NLMSG_DONE
         THEN /\ nl' = "done"
              /\ iters' = <<r.it>>
              /\ myhdr' = r.val
              /\ UNCHANGED yielded
         ELSE IF ~(fits /\ ExtractIteratorOk(data, r.it, sub_len))
         THEN /\ nl' = "fault"
              /\ iters' = <<r.it>>
              /\ myhdr' = r.val
              /\ UNCHANGED yielded
         ELSE /\ nl' = "yielded"
              /\ iters' = <<Advance(r.it, sub_len), ExtractIterator(data, r.it, sub_len)>>
              /\ myhdr' = r.val
              /\ yielded' = Append(yielded,
                                   [type |-> type, datagram |-> reads,
                                    header |-> it.offset,
                                    payload |-> ExtractIterator(data, r.it, sub_len)])
  /\ UNCHANGED <<sizeofLong, padVars, apiVars, codecVars, decVars, gnlVars, data, sock, reads, readsInPull, stopped>>

\* RecvResume with the return left out: go on after every yield
RecvResumeGoesOn ==
  /\ nl = "resumed"
  /\ nl' = "inner"
  /\ UNCHANGED <<sizeofLong, padVars, apiVars, codecVars, decVars, gnlVars, data, iters,
                 sock, myhdr, yielded, reads, readsInPull, stopped>>

\* if not myhdr['flags'] & self._NLMSG_F_MULTI: return
RecvResume ==
  /\ nl = "resumed"
  /\ nl' = IF BitSet(IntOf(myhdr["flags"]), NLMSG_F_MULTI) THEN "inner" ELSE "done"
  /\ UNCHANGED <<sizeofLong, padVars, apiVars, codecVars, decVars, gnlVars, data, iters,
                 sock, myhdr, yielded, reads, readsInPull, stopped>>

(***************************************************************************)
(* A caller of Netlink.Recv that asks for at most MaxYields messages.      *)
(***************************************************************************)
\* next() on the generator
Pull ==
  /\ nl \in {"created", "yielded"}
  /\ Len(yielded) < MaxYields
  /\ nl' = IF nl = "created" THEN "recv" ELSE "resumed"
  /\ readsInPull' = 0
  /\ UNCHANGED <<sizeofLong, padVars, apiVars, codecVars, decVars, gnlVars, data, iters,
                 sock, myhdr, yielded, reads, stopped>>

\* next() on the generator once it has returned or raised: StopIteration
PullEnded ==
  /\ nl \in {"done", "fault"}
  /\ ~stopped
  /\ stopped' = TRUE
  /\ readsInPull' = 0
  /\ UNCHANGED <<sizeofLong, padVars, apiVars, codecVars, decVars, gnlVars, data, iters,
                 sock, nl, myhdr, yielded, reads>>

(***************************************************************************)
(* The datagrams of the socket: MaxItems bounds the number of datagrams    *)
(* plus the number of messages in them.                                    *)
(***************************************************************************)
\* a payload: a generic-protocol header {cmd 1, version 1, reserved 0}
Payload == <<1, 1, 0, 0>>

\* the messages: the terminal one, and messages of the control family with
\* the multi-part flag set or clear whose length field is right, zero, or
\* four more than the bytes that follow
Messages(long) ==
  LET exact == calcsize(Format("_nlmsghdr"), long) + Len(Payload)
  IN  {[length |-> exact, type |-> NLMSG_DONE, flags |-> 0, payload |-> Payload]}
        \cup {[length |-> l, type |-> 16, flags |-> f, payload |-> Payload] :
                l \in {exact, 0, exact + 4}, f \in {0, NLMSG_F_MULTI}}

\* the sequences of n messages of M
RECURSIVE MessageSeqsOf(_, _)
MessageSeqsOf(M, n) ==
  IF n = 0 THEN {<<>>}
  ELSE {<<m>> \o d : m \in M, d \in MessageSeqsOf(M, n - 1)}

MessageSeqs(long, n) == MessageSeqsOf(Messages(long), n)

RECURSIVE Socks(_, _)
Socks(long, budget) ==
  IF budget <= 0 THEN {<<>>}
  ELSE {<<>>} \cup UNION {{<<d>> \o rest : d \in MessageSeqs(long, n),
                                           rest \in Socks(long, budget - 1 - n)} :
                            n \in 0..(budget - 1)}

InitRecv ==
  /\ sizeofLong \in LongSizes
  /\ parser = "" /\ flow = "" /\ attrs = <<>> /\ accumulator = <<>> /\ packed = "no"
  /\ stack = <<>> /\ status = "idle" /\ result = <<>>
  /\ data = <<>> /\ iters = <<>>
  /\ sock \in Socks(sizeofLong, MaxItems)
  /\ nl = "created" /\ myhdr = <<>> /\ yielded = <<>>
  /\ reads = 0 /\ readsInPull = 0 /\ stopped = FALSE
  /\ msgtypes = <<>> /\ msgtypes_by_id = <<>> /\ msgtypes_by_name = <<>>
  /\ ctor = "none" /\ gnl = "none" /\ genlhdr = <<>> /\ msg = <<>> /\ sent = <<>>
  /\ attrlen = 0 /\ padbytes = 0 /\ padpath = "none"
  /\ call = <<>> /\ outcome = "none" /\ recvOf = 0 /\ recvBy = "__init__"

NextRecv == Pull \/ PullEnded \/ RecvSock \/ RecvFrame \/ RecvResume

SpecRecv == InitRecv /\ [][NextRecv]_vars

(***************************************************************************)
(* Netlink.Send.                                                           *)
(***************************************************************************)
NLMSG_F_REQUEST == 1

\* Netlink.flags
NetlinkFlags == [root |-> 256, match |-> 512, atomic |-> 1024, dump |-> 768]

\* a | b
RECURSIVE BitOr(_, _)
BitOr(a, b) ==
  IF a = 0 THEN b
  ELSE IF b = 0 THEN a
  ELSE (IF a % 2 = 1 \/ b % 2 = 1 THEN 1 ELSE 0) + 2 * BitOr(a \div 2, b \div 2)

\* flagint after the first n turns of the loop over flags
RECURSIVE FlagInt(_, _)
FlagInt(flags, n) ==
  IF n = 0 THEN NLMSG_F_REQUEST
  ELSE BitOr(FlagInt(flags, n - 1), NetlinkFlags[flags[n]])

\* Netlink.Send(msgtype, flags, msg) with the seq that random.randint and
\* the pid that os.getpid give: ok (no exception) and the datagram written
NetlinkSend(long, msgtype, flags, payload, seq, pid) ==
  LET hdr == StructParserPack("_nlmsghdr", long, <<>>,
               [length |-> DigitsOf(Len(payload) + calcsize(Format("_nlmsghdr"), long)),
                type |-> DigitsOf(msgtype),
                flags |-> DigitsOf(FlagInt(flags, Len(flags))),
                seq |-> seq,
                pid |-> pid])
  IN  IF (\E i \in DOMAIN flags : flags[i] \notin DOMAIN NetlinkFlags) \/ ~hdr.ok
      THEN [ok |-> FALSE, bytes |-> <<>>]
      ELSE [ok |-> TRUE, bytes |-> AccumulatorStr(Append(hdr.acc, payload))]

(***************************************************************************)
(* GenericNetlink.  A descriptor is the record of id, name (the bytes of   *)
(* the str), parser (the name of the codec, or "None") and commands (a     *)
(* dict, or <<>> for None).  The indices hold the descriptors of the list  *)
(* themselves, not copies: an index maps a key to the place of the         *)
(* descriptor in the list.                                                 *)
(***************************************************************************)
\* 'nlctrl'
nlctrl == <<110, 108, 99, 116, 114, 108>>

\* dict((i[key], i) for i in self._msgtypes): of two descriptors with the
\* same key the later one is kept
IndexBy(list, key) ==
  [k \in {list[i][key] : i \in DOMAIN list} |->
     CHOOSE i \in DOMAIN list :
       /\ list[i][key] = k
       /\ \A j \in DOMAIN list : list[j][key] = k => j <= i]

\* GenericNetlink._UpdateMsgTypes
UpdateMsgTypes(list) ==
  /\ msgtypes_by_id' = IndexBy(list, "id")
  /\ msgtypes_by_name' = IndexBy(list, "name")

\* str.rstrip('\0')
RECURSIVE rstrip(_)
rstrip(str) ==
  IF str # <<>> /\ str[Len(str)] = 0
  THEN rstrip(SubSeq(str, 1, Len(str) - 1))
  ELSE str

\* GenericNetlink.Send(msgtype, flags, cmd, version, **attrs): ok (no
\* exception) and the datagram written
GenericNetlinkSend(long, list, by_name, name, flags, cmd, version, kwargs, order, seq, pid) ==
  IF name \notin DOMAIN by_name THEN [ok |-> FALSE, bytes |-> <<>>]
  ELSE
    LET msgtype == list[by_name[name]]
    IN  IF cmd \notin DOMAIN msgtype.commands THEN [ok |-> FALSE, bytes |-> <<>>]
        ELSE
          LET hdr == StructParserPack("_genlmsghdr", long, <<>>,
                       [cmd |-> DigitsOf(msgtype.commands[cmd]),
                        version |-> DigitsOf(version),
                        reserved |-> <<>>])
          IN  IF ~hdr.ok \/ msgtype.parser = "None" THEN [ok |-> FALSE, bytes |-> <<>>]
              ELSE
                LET body == AttributesPack(msgtype.parser, long, hdr.acc, kwargs, order)
                IN  IF ~body.ok THEN [ok |-> FALSE, bytes |-> <<>>]
                    ELSE NetlinkSend(long, msgtype.id, flags,
                                     AccumulatorStr(body.acc), seq, pid)

\* what random.randint(0, 2 ** 32 - 1) and os.getpid() may give
RandomSeqs == {<<>>, <<255, 255, 255, 255>>}
Pids == {<<1>>, <<57, 48>>}

\* GenericNetlink.__init__, down to the for statement
Construct ==
  /\ ctor = "new"
  /\ \E seq \in RandomSeqs, pid \in Pids :
       LET list == <<[id |-> 16, name |-> nlctrl, parser |-> "_ctrl_attr",
                      commands |-> [newfamily |-> 1, getfamily |-> 3]]>>
           r == GenericNetlinkSend(sizeofLong, list, IndexBy(list, "name"), nlctrl,
                                   <<"dump">>, "getfamily", 1, <<>>, <<>>, seq, pid)
       IN  /\ msgtypes' = list
           /\ UpdateMsgTypes(list)
           /\ sent' = IF r.ok THEN Append(sent, r.bytes) ELSE sent
           /\ ctor' = IF r.ok THEN "for" ELSE "fault"
  /\ UNCHANGED <<sizeofLong, padVars, apiVars, codecVars, nlVars, gnl, genlhdr, msg,
                 data, iters, stack, status, result>>

\* for msg in self.Recv(): next() on the GenericNetlink.Recv generator,
\* which asks the Netlink.Recv generator for its next element
ForNext ==
  /\ ctor = "for"
  /\ gnl \in {"created", "yielded"}
  /\ ctor' = "wait"
  /\ gnl' = "next"
  /\ nl' = IF nl = "created" THEN "recv" ELSE "resumed"
  /\ readsInPull' = 0
  /\ UNCHANGED <<sizeofLong, padVars, apiVars, codecVars, sock, myhdr, yielded, reads, stopped,
                 registry, genlhdr, msg, sent,
                 data, iters, stack, status, result>>

\* GenericNetlink.Recv: Netlink.Recv has yielded (msgtype, iterator); unpack
\* the header, look the parser up by id and call its Unpack.  An exception
\* that leaves GenericNetlink.Recv drops the Netlink.Recv generator of its
\* for statement, which is closed at its yield
GenericNetlinkRecv ==
  /\ gnl = "next" /\ nl = "yielded"
  /\ LET msgtype == IntOf(myhdr["type"])
         r == StructParserUnpack("_genlmsghdr", sizeofLong, data, iters[2])
     IN  IF ~r.ok
         THEN /\ gnl' = "fault" /\ nl' = "closed"
              /\ UNCHANGED <<iters, genlhdr, stack, status>>
         ELSE /\ iters' = [iters EXCEPT ![2] = r.it]
              /\ genlhdr' = r.val
              /\ IF msgtype \notin DOMAIN msgtypes_by_id
                 THEN gnl' = "fault" /\ nl' = "closed" /\ UNCHANGED <<stack, status>>
                 ELSE IF msgtypes[msgtypes_by_id[msgtype]].parser = "None"
                 THEN gnl' = "fault" /\ nl' = "closed" /\ UNCHANGED <<stack, status>>
                 ELSE /\ gnl' = "unpack"
                      /\ stack' = <<Call(msgtypes[msgtypes_by_id[msgtype]].parser, 2)>>
                      /\ status' = "running"
                      /\ UNCHANGED nl
  /\ UNCHANGED <<sizeofLong, padVars, apiVars, codecVars, sock, myhdr, yielded, reads, readsInPull, stopped, registry, ctor, msg, sent,
                 data, result>>

\* GenericNetlink.Recv: parser.Unpack has returned or raised; yield
\* (genlhdr['cmd'], attrs), or let the exception leave, which closes the
\* Netlink.Recv generator at its yield
GenericNetlinkYield ==
  /\ gnl = "unpack" /\ status \in {"done", "fault"}
  /\ IF status = "done"
     THEN gnl' = "yielded" /\ msg' = <<IntOf(genlhdr["cmd"]), result>> /\ UNCHANGED nl
     ELSE gnl' = "fault" /\ nl' = "closed" /\ UNCHANGED msg
  /\ UNCHANGED <<sizeofLong, padVars, apiVars, codecVars, sock, myhdr, yielded, reads, readsInPull, stopped, registry, ctor, genlhdr, sent,
                 data, iters, stack, status, result>>

\* GenericNetlink.Recv: Netlink.Recv has returned or raised
GenericNetlinkEnd ==
  /\ gnl = "next" /\ nl \in {"done", "fault"}
  /\ gnl' = nl
  /\ UNCHANGED <<sizeofLong, padVars, apiVars, codecVars, nlVars, registry, ctor, genlhdr, msg, sent,
                 data, iters, stack, status, result>>

\* ForBody that adds the first byte of the pid of the request to the id of
\* a new family
ForBodyAddsPid ==
  /\ ctor = "wait" /\ gnl = "yielded"
  /\ LET msgtype == msg[1]
         attrs_ == msg[2]
         family_name == rstrip(attrs_["family_name"])
         size == calcsize(Format("_nlmsghdr"), sizeofLong)
     IN  IF msgtype # msgtypes[msgtypes_by_name[nlctrl]].commands["newfamily"]
         THEN ctor' = "fault" /\ UNCHANGED msgtypes
         ELSE IF "family_name" \notin DOMAIN attrs_
         THEN ctor' = "fault" /\ UNCHANGED msgtypes
         ELSE IF "family_id" \notin DOMAIN attrs_
         THEN ctor' = "fault" /\ UNCHANGED msgtypes
         ELSE IF family_name \in DOMAIN msgtypes_by_name
         THEN /\ ctor' = IF IntOf(attrs_["family_id"])
                              = msgtypes[msgtypes_by_name[family_name]].id
                         THEN "for" ELSE "fault"
              /\ UNCHANGED msgtypes
         ELSE /\ ctor' = "for"
              /\ msgtypes' = Append(msgtypes,
                                    [id |-> IntOf(attrs_["family_id"])
                                              + sent[1][size - sizeofLong + 1],
                                     name |-> family_name,
                                     parser |-> "None",
                                     commands |-> <<>>])
  /\ gnl' = IF ctor' = "fault" THEN "closed" ELSE gnl
  /\ nl' = IF ctor' = "fault" THEN "closed" ELSE nl
  /\ UNCHANGED <<sizeofLong, padVars, apiVars, codecVars, sock, myhdr, yielded, reads, readsInPull, stopped,
                 msgtypes_by_id, msgtypes_by_name,
                 genlhdr, msg, sent, data, iters, stack, status, result>>

\* the body of the for statement of GenericNetlink.__init__; a failed
\* assertion leaves __init__ and drops the generator of the for statement,
\* which is closed at its yield and closes the Netlink.Recv generator
ForBody ==
  /\ ctor = "wait" /\ gnl = "yielded"
  /\ LET msgtype == msg[1]
         attrs_ == msg[2]
         family_name == rstrip(attrs_["family_name"])
     IN  IF msgtype # msgtypes[msgtypes_by_name[nlctrl]].commands["newfamily"]
         THEN ctor' = "fault" /\ UNCHANGED msgtypes
         ELSE IF "family_name" \notin DOMAIN attrs_
         THEN ctor' = "fault" /\ UNCHANGED msgtypes
         ELSE IF "family_id" \notin DOMAIN attrs_
         THEN ctor' = "fault" /\ UNCHANGED msgtypes
         ELSE IF family_name \in DOMAIN msgtypes_by_name
         THEN /\ ctor' = IF IntOf(attrs_["family_id"])
                              = msgtypes[msgtypes_by_name[family_name]].id
                         THEN "for" ELSE "fault"
              /\ UNCHANGED msgtypes
         ELSE /\ ctor' = "for"
              /\ msgtypes' = Append(msgtypes,
                                    [id |-> IntOf(attrs_["family_id"]),
                                     name |-> family_name,
                                     parser |-> "None",
                                     commands |-> <<>>])
  /\ gnl' = IF ctor' = "fault" THEN "closed" ELSE gnl
  /\ nl' = IF ctor' = "fault" THEN "closed" ELSE nl
  /\ UNCHANGED <<sizeofLong, padVars, apiVars, codecVars, sock, myhdr, yielded, reads, readsInPull, stopped,
                 msgtypes_by_id, msgtypes_by_name,
                 genlhdr, msg, sent, data, iters, stack, status, result>>

\* the for statement has no more elements: self._UpdateMsgTypes(); or
\* self.Recv() has raised
ForEnd ==
  /\ ctor = "wait" /\ gnl \in {"done", "fault"}
  /\ IF gnl = "done"
     THEN ctor' = "ready" /\ UpdateMsgTypes(msgtypes)
     ELSE ctor' = "fault" /\ UNCHANGED <<msgtypes_by_id, msgtypes_by_name>>
  /\ UNCHANGED <<sizeofLong, padVars, apiVars, codecVars, nlVars, msgtypes, gnl, genlhdr, msg, sent,
                 data, iters, stack, status, result>>

(***************************************************************************)
(* The responses to the request of the bootstrap: at most MaxResponses     *)
(* messages in one datagram, and the terminal message in the next.         *)
(***************************************************************************)
\* the payload of a message of the control family: the header with cmd and
\* the attributes family_id and family_name, then more attributes
FamilyPayload(long, cmd, id, name, more) ==
  <<cmd, 1, 0, 0>>
    \o AccumulatorStr(AttributesPack("_ctrl_attr", long, <<>>,
                                     [family_id |-> DigitsOf(id),
                                      family_name |-> name \o <<0>>],
                                     <<"family_id", "family_name">>).acc)
    \o more

\* the attribute ops with one operation {id: 5}
OpsAttribute(long) ==
  LET op == AccumulatorStr(AttributePack("_op_attr", long, <<>>, 1, <<5>>).acc)
  IN  Word(8 + Len(op), 6) \o Word(4 + Len(op), 1) \o op

Message(long, type, flags, payload) ==
  [length |-> calcsize(Format("_nlmsghdr"), long) + Len(payload),
   type |-> type, flags |-> flags, payload |-> payload]

Responses(long) ==
  {Message(long, 16, NLMSG_F_MULTI, FamilyPayload(long, 1, r[1], r[2], <<>>)) :
     r \in {<<16, nlctrl>>, <<17, nlctrl>>, <<20, <<97>>>>, <<21, <<97>>>>,
            <<20, <<98>>>>}}
    \cup {Message(long, 16, NLMSG_F_MULTI,
                  FamilyPayload(long, 1, 22, <<99>>, OpsAttribute(long))),
          Message(long, 16, NLMSG_F_MULTI, FamilyPayload(long, 2, 23, <<100>>, <<>>)),
          Message(long, 20, NLMSG_F_MULTI, FamilyPayload(long, 1, 24, <<101>>, <<>>)),
          \* an attribute of a type that _ctrl_attr does not know
          Message(long, 16, NLMSG_F_MULTI, <<1, 1, 0, 0>> \o Word(8, 99) \o <<1, 0, 0, 0>>)}

BootSocks(long) ==
  {<<d, <<Message(long, NLMSG_DONE, 0, <<0, 0, 0, 0>>)>>>> :
     d \in UNION {MessageSeqsOf(Responses(long), n) : n \in 0..MaxResponses}}

InitBoot ==
  /\ sizeofLong \in LongSizes
  /\ parser = "" /\ flow = "" /\ attrs = <<>> /\ accumulator = <<>> /\ packed = "no"
  /\ stack = <<>> /\ status = "idle" /\ result = <<>>
  /\ data = <<>> /\ iters = <<>>
  /\ sock \in BootSocks(sizeofLong)
  /\ nl = "created" /\ myhdr = <<>> /\ yielded = <<>>
  /\ reads = 0 /\ readsInPull = 0 /\ stopped = FALSE
  /\ msgtypes = <<>> /\ msgtypes_by_id = <<>> /\ msgtypes_by_name = <<>>
  /\ ctor = "new" /\ gnl = "created" /\ genlhdr = <<>> /\ msg = <<>> /\ sent = <<>>
  /\ attrlen = 0 /\ padbytes = 0 /\ padpath = "none"
  /\ call = <<>> /\ outcome = "none" /\ recvOf = 0 /\ recvBy = "__init__"

NextBoot ==
  \/ Construct
  \/ ForNext
  \/ RecvSock
  \/ RecvFrame
  \/ RecvResume
  \/ GenericNetlinkRecv
  \/ Unpack
  \/ GenericNetlinkYield
  \/ GenericNetlinkEnd
  \/ ForBody
  \/ ForEnd

SpecBoot == InitBoot /\ [][NextBoot]_vars

(***************************************************************************)
(* A client of a GenericNetlink object: once the constructor has returned  *)
(* it calls RegisterMsgType, Send, Query and Recv, and pulls from or       *)
(* drops the generator it got last.  It holds one generator at a time: a   *)
(* new one takes the place of the one it held.                             *)
(* The kernel queues an answer to a request after the request was sent;    *)
(* each message of the socket carries in re the number of the request it   *)
(* answers.                                                                *)
(***************************************************************************)
\* the calls made so far
Calls == IF call = <<>> THEN 0 ELSE call.n

\* control is with the client: the constructor has returned and no next()
\* is running
AtClient == ctor = "ready" /\ gnl \notin {"next", "unpack"}

\* os.getpid(): what it gave when the constructor sent its request
Getpid ==
  LET size == calcsize(Format("_nlmsghdr"), sizeofLong)
  IN  Normal(Slice(sent[1], size - sizeofLong, size))

\* family names: 'a', 'b', and 'z', which the kernel never reports
RegisterNames == {nlctrl, <<97>>, <<98>>, <<122>>}

\* GenericNetlink.RegisterMsgType(family_name, parser, commands)
RegisterMsgType ==
  /\ AtClient /\ Calls < MaxCalls
  /\ \E family_name \in RegisterNames :
       LET parser_ == "nl80211_attr"
           commands == [get_interface |-> 5]
       IN  /\ call' = [op |-> "RegisterMsgType", n |-> Calls + 1,
                       family_name |-> family_name, parser |-> parser_,
                       commands |-> commands]
           /\ IF family_name \notin DOMAIN msgtypes_by_name
              THEN outcome' = "raised" /\ UNCHANGED msgtypes
              ELSE /\ outcome' = "returned"
                   /\ msgtypes' = [msgtypes EXCEPT
                                     ![msgtypes_by_name[family_name]] =
                                       [@ EXCEPT !.parser = parser_,
                                                 !.commands = commands]]
  /\ UNCHANGED <<sizeofLong, padVars, recvOf, recvBy, codecVars, nlVars,
                 msgtypes_by_id, msgtypes_by_name, ctor, gnl, genlhdr, msg, sent,
                 data, iters, stack, status, result>>

\* a request to the control family
Getfamily ==
  [msgtype |-> nlctrl, flags |-> <<"dump">>, cmd |-> "getfamily", version |-> 1,
   attrs |-> <<>>]

\* the arguments of a Send: two requests to the control family, one to the
\* family 'a', and one for every way to fail
SendArgs ==
  {Getfamily,
   [Getfamily EXCEPT !.flags = <<>>, !.attrs = [family_id |-> <<16>>]],
   [msgtype |-> <<97>>, flags |-> <<>>, cmd |-> "get_interface",
    version |-> 0, attrs |-> [ifindex |-> <<3>>]],
   [Getfamily EXCEPT !.msgtype = <<122>>],
   [Getfamily EXCEPT !.cmd = "del_interface"],
   [Getfamily EXCEPT !.attrs = [bogus |-> <<1>>]],
   [Getfamily EXCEPT !.flags = <<"bogus">>]}

\* the arguments of a Query: a request to the control family, and one that
\* fails
QueryArgs == {Getfamily, [Getfamily EXCEPT !.cmd = "del_interface"]}

\* the call of op with arguments a, as call records it
CallOf(op, a) ==
  [op |-> op, n |-> Calls + 1, msgtype |-> a.msgtype, flags |-> a.flags,
   cmd |-> a.cmd, version |-> a.version, attrs |-> a.attrs]

\* self.Send(msgtype, flags, cmd, version, **attrs) with the arguments a
SendOf(a, seq) ==
  GenericNetlinkSend(sizeofLong, msgtypes, msgtypes_by_name, a.msgtype,
                     a.flags, a.cmd, a.version, a.attrs,
                     IF a.attrs = <<>> THEN <<>>
                     ELSE <<CHOOSE k \in DOMAIN a.attrs : TRUE>>,
                     seq, Getpid)

\* Send that writes the header of the generic protocol to the socket before
\* it encodes the attributes
SendWritesFirst ==
  /\ AtClient /\ Calls < MaxCalls
  /\ \E a \in SendArgs, seq \in RandomSeqs :
       LET r == SendOf(a, seq)
       IN  /\ call' = CallOf("Send", a)
           /\ sent' = IF r.ok THEN Append(sent, r.bytes)
                      ELSE IF a.msgtype \in DOMAIN msgtypes_by_name
                      THEN Append(sent, <<0, a.version, 0, 0>>)
                      ELSE sent
           /\ outcome' = IF r.ok THEN "returned" ELSE "raised"
  /\ UNCHANGED <<sizeofLong, padVars, recvOf, recvBy, codecVars, nlVars,
                 registry, ctor, gnl, genlhdr, msg,
                 data, iters, stack, status, result>>

\* GenericNetlink.Send(msgtype, flags, cmd, version, **attrs)
Send ==
  /\ AtClient /\ Calls < MaxCalls
  /\ \E a \in SendArgs, seq \in RandomSeqs :
       LET r == SendOf(a, seq)
       IN  /\ call' = CallOf("Send", a)
           /\ sent' = IF r.ok THEN Append(sent, r.bytes) ELSE sent
           /\ outcome' = IF r.ok THEN "returned" ELSE "raised"
  /\ UNCHANGED <<sizeofLong, padVars, recvOf, recvBy, codecVars, nlVars,
                 registry, ctor, gnl, genlhdr, msg,
                 data, iters, stack, status, result>>

\* GenericNetlink.Recv(), called by the client: a generator that has not
\* run yet; the client keeps it in place of the one it held
Recv ==
  /\ AtClient /\ Calls < MaxCalls
  /\ call' = [op |-> "Recv", n |-> Calls + 1]
  /\ outcome' = "returned"
  /\ gnl' = "created"
  /\ nl' = "created"
  /\ recvOf' = Len(sent)
  /\ recvBy' = "Recv"
  /\ stopped' = FALSE
  /\ UNCHANGED <<sizeofLong, padVars, codecVars, sock, myhdr, yielded, reads, readsInPull,
                 registry, ctor, genlhdr, msg, sent,
                 data, iters, stack, status, result>>

\* Query with the Send left out: return self.Recv() at once
QueryWithoutSend ==
  /\ AtClient /\ Calls < MaxCalls
  /\ \E a \in QueryArgs :
       /\ call' = CallOf("Query", a)
       /\ outcome' = "returned"
       /\ gnl' = "created"
       /\ nl' = "created"
       /\ recvOf' = Len(sent)
       /\ recvBy' = "Query"
       /\ stopped' = FALSE
  /\ UNCHANGED <<sizeofLong, padVars, codecVars, sock, myhdr, yielded, reads, readsInPull,
                 registry, ctor, genlhdr, msg, sent,
                 data, iters, stack, status, result>>

\* GenericNetlink.Query(msgtype, flags, cmd, version, **attrs): Send, then
\* return self.Recv(), a generator that has not run yet; the client keeps
\* it in place of the one it held
Query ==
  /\ AtClient /\ Calls < MaxCalls
  /\ \E a \in QueryArgs, seq \in RandomSeqs :
       LET r == SendOf(a, seq)
       IN  /\ call' = CallOf("Query", a)
           /\ sent' = IF r.ok THEN Append(sent, r.bytes) ELSE sent
           /\ outcome' = IF r.ok THEN "returned" ELSE "raised"
           /\ gnl' = IF r.ok THEN "created" ELSE gnl
           /\ nl' = IF r.ok THEN "created" ELSE nl
           /\ recvOf' = IF r.ok THEN Len(sent') ELSE recvOf
           /\ recvBy' = IF r.ok THEN "Query" ELSE recvBy
           /\ stopped' = IF r.ok THEN FALSE ELSE stopped
  /\ UNCHANGED <<sizeofLong, padVars, codecVars, sock, myhdr, yielded, reads, readsInPull,
                 registry, ctor, genlhdr, msg,
                 data, iters, stack, status, result>>

\* next() on the generator the client holds
ClientNext ==
  /\ AtClient
  /\ gnl \in {"created", "yielded"}
  /\ gnl' = "next"
  /\ nl' = IF nl = "created" THEN "recv" ELSE "resumed"
  /\ readsInPull' = 0
  /\ UNCHANGED <<sizeofLong, padVars, apiVars, codecVars, sock, myhdr, yielded, reads, stopped,
                 registry, ctor, genlhdr, msg, sent,
                 data, iters, stack, status, result>>

\* the client drops the generator before its end: GeneratorExit is raised
\* at the yield of GenericNetlink.Recv and at the yield of Netlink.Recv
Abandon ==
  /\ AtClient
  /\ gnl \in {"created", "yielded"}
  /\ gnl' = "closed"
  /\ nl' = "closed"
  /\ UNCHANGED <<sizeofLong, padVars, apiVars, codecVars, sock, myhdr, yielded, reads,
                 readsInPull, stopped, registry, ctor, genlhdr, msg, sent,
                 data, iters, stack, status, result>>

\* the message m as an answer to request k
Re(m, k) ==
  [length |-> m.length, type |-> m.type, flags |-> m.flags, payload |-> m.payload,
   re |-> k]

\* the last message of a multi-part answer to request k
Done(long, k) == Re(Message(long, NLMSG_DONE, 0, <<0, 0, 0, 0>>), k)

\* a message of the control family about a family, in answer to request k
Family(long, flags, id, name, more, k) ==
  Re(Message(long, 16, flags, FamilyPayload(long, 1, id, name, more)), k)

\* what the kernel may answer to request k: a family in one message, or two
\* families in a multi-part answer of two datagrams
Answers(long, k) ==
  {<<<<Family(long, 0, 16, nlctrl, OpsAttribute(long), k)>>>>,
   <<<<Family(long, NLMSG_F_MULTI, 16, nlctrl, <<>>, k),
       Family(long, NLMSG_F_MULTI, 20, <<97>>, <<>>, k)>>,
     <<Done(long, k)>>>>}

\* the kernel queues its answer to the last request of the client, while
\* the client is not reading
KernelAnswers ==
  /\ AtClient
  /\ Len(sent) > 1
  /\ \A i \in DOMAIN sock : \A j \in DOMAIN sock[i] : sock[i][j].re < Len(sent)
  /\ \E answer \in Answers(sizeofLong, Len(sent)) : sock' = sock \o answer
  /\ UNCHANGED <<sizeofLong, padVars, apiVars, codecVars, nl, myhdr, yielded, reads,
                 readsInPull, stopped, gnlVars,
                 data, iters, stack, status, result>>

\* the state before the constructor runs, with the datagrams of socks on
\* the socket
InitObject(socks) ==
  /\ sizeofLong \in LongSizes
  /\ parser = "" /\ flow = "" /\ attrs = <<>> /\ accumulator = <<>> /\ packed = "no"
  /\ stack = <<>> /\ status = "idle" /\ result = <<>>
  /\ data = <<>> /\ iters = <<>>
  /\ sock \in socks
  /\ nl = "created" /\ myhdr = <<>> /\ yielded = <<>>
  /\ reads = 0 /\ readsInPull = 0 /\ stopped = FALSE
  /\ msgtypes = <<>> /\ msgtypes_by_id = <<>> /\ msgtypes_by_name = <<>>
  /\ ctor = "new" /\ gnl = "created" /\ genlhdr = <<>> /\ msg = <<>> /\ sent = <<>>
  /\ attrlen = 0 /\ padbytes = 0 /\ padpath = "none"
  /\ call = <<>> /\ outcome = "none" /\ recvOf = 0 /\ recvBy = "__init__"

\* GenericNetlink.__init__ and the generators it runs
Bootstrap ==
  \/ Construct
  \/ ForNext
  \/ RecvSock
  \/ RecvFrame
  \/ RecvResume
  \/ GenericNetlinkRecv
  \/ Unpack
  \/ GenericNetlinkYield
  \/ GenericNetlinkEnd
  \/ ForBody
  \/ ForEnd

(***************************************************************************)
(* The registry and its clients: the bootstrap finds at most MaxFamilies   *)
(* families, two of one id or of one name among them, and the client calls *)
(* RegisterMsgType and Send.                                               *)
(***************************************************************************)
RegistrySocks ==
  LET responses == {Family(sizeofLong, NLMSG_F_MULTI, 20, <<97>>, <<>>, 1),
                    Family(sizeofLong, NLMSG_F_MULTI, 20, <<98>>,
                           OpsAttribute(sizeofLong), 1)}
  IN  {<<d, <<Done(sizeofLong, 1)>>>> :
         d \in UNION {MessageSeqsOf(responses, n) : n \in 0..MaxFamilies}}

InitRegistry == InitObject(RegistrySocks)

NextRegistry == Bootstrap \/ RegisterMsgType \/ Send

SpecRegistry == InitRegistry /\ [][NextRegistry]_vars

(***************************************************************************)
(* Queries: the bootstrap finds the control family only, and then the      *)
(* client calls Query and Recv and reads what the kernel answers.          *)
(***************************************************************************)
QuerySocks ==
  {<<<<Family(sizeofLong, NLMSG_F_MULTI, 16, nlctrl, <<>>, 1)>>,
     <<Done(sizeofLong, 1)>>>>}

InitQuery == InitObject(QuerySocks)

NextQuery == Bootstrap \/ Query \/ Recv \/ ClientNext \/ Abandon \/ KernelAnswers

SpecQuery == InitQuery /\ [][NextQuery]_vars

(***************************************************************************)
(* A caller of Netlink.Send(msgtype, flags, msg): any list of at most      *)
(* MaxFlags names, known to Netlink.flags or not.                          *)
(***************************************************************************)
FlagNames == {"root", "match", "atomic", "dump", "bogus"}

RECURSIVE FlagLists(_)
FlagLists(n) ==
  IF n = 0 THEN {<<>>}
  ELSE FlagLists(n - 1)
         \cup {Append(l, f) : l \in {k \in FlagLists(n - 1) : Len(k) = n - 1},
                              f \in FlagNames}

SendPayloads == {<<>>, <<3, 1, 0, 0>>, <<3, 1, 0, 0, 7>>}

\* Netlink.Send
NetlinkSendCall ==
  /\ call.op = "Netlink.Send" /\ outcome = "none"
  /\ \E seq \in RandomSeqs, pid \in Pids :
       LET r == NetlinkSend(sizeofLong, call.msgtype, call.flags, call.msg, seq, pid)
       IN  /\ sent' = IF r.ok THEN Append(sent, r.bytes) ELSE sent
           /\ outcome' = IF r.ok THEN "returned" ELSE "raised"
  /\ UNCHANGED <<sizeofLong, padVars, call, recvOf, recvBy, codecVars, nlVars,
                 registry, ctor, gnl, genlhdr, msg,
                 data, iters, stack, status, result>>

InitSend ==
  /\ sizeofLong \in LongSizes
  /\ parser = "" /\ flow = "" /\ attrs = <<>> /\ accumulator = <<>> /\ packed = "no"
  /\ stack = <<>> /\ status = "idle" /\ result = <<>>
  /\ data = <<>> /\ iters = <<>>
  /\ sock = <<>> /\ nl = "created" /\ myhdr = <<>> /\ yielded = <<>>
  /\ reads = 0 /\ readsInPull = 0 /\ stopped = FALSE
  /\ msgtypes = <<>> /\ msgtypes_by_id = <<>> /\ msgtypes_by_name = <<>>
  /\ ctor = "none" /\ gnl = "none" /\ genlhdr = <<>> /\ msg = <<>> /\ sent = <<>>
  /\ attrlen = 0 /\ padbytes = 0 /\ padpath = "none"
  /\ call \in [op : {"Netlink.Send"}, msgtype : {16, 20}, flags : FlagLists(MaxFlags),
               msg : SendPayloads]
  /\ outcome = "none" /\ recvOf = 0 /\ recvBy = "__init__"

NextSend == NetlinkSendCall

SpecSend == InitSend /\ [][NextSend]_vars

(***************************************************************************)
(* The padding of an attribute of every length a 16-bit length field can   *)
(* hold, as Attribute.Unpack and as Attribute.Pack compute it.             *)
(***************************************************************************)
\* the values of the field len of the format 'HH'
U16 == 0..(256 * 256 - 1)

\* Attribute.Unpack: padding = ((nlattr['len'] + 4 - 1) & ~3) - nlattr['len']
UnpackPadding ==
  /\ padpath = "start"
  /\ padbytes' = Padding(attrlen)
  /\ padpath' = "Unpack"
  /\ UNCHANGED <<sizeofLong, attrlen, apiVars, codecVars, nlVars, gnlVars,
                 data, iters, stack, status, result>>

\* Attribute.Pack: attrlen = self._nlattr.size + len(sub_accumulator);
\* padding = ((attrlen + 4 - 1) & ~3) - attrlen
PackPadding ==
  /\ padpath = "start"
  /\ attrlen >= calcsize(Format("_nlattr"), sizeofLong)
  /\ padbytes' = Padding(attrlen)
  /\ padpath' = "Pack"
  /\ UNCHANGED <<sizeofLong, attrlen, apiVars, codecVars, nlVars, gnlVars,
                 data, iters, stack, status, result>>

InitPadding ==
  /\ sizeofLong \in LongSizes
  /\ parser = "" /\ flow = "" /\ attrs = <<>> /\ accumulator = <<>> /\ packed = "no"
  /\ stack = <<>> /\ status = "idle" /\ result = <<>>
  /\ data = <<>> /\ iters = <<>>
  /\ sock = <<>> /\ nl = "created" /\ myhdr = <<>> /\ yielded = <<>>
  /\ reads = 0 /\ readsInPull = 0 /\ stopped = FALSE
  /\ msgtypes = <<>> /\ msgtypes_by_id = <<>> /\ msgtypes_by_name = <<>>
  /\ ctor = "none" /\ gnl = "none" /\ genlhdr = <<>> /\ msg = <<>> /\ sent = <<>>
  /\ attrlen \in U16 /\ padbytes = 0 /\ padpath = "start"
  /\ call = <<>> /\ outcome = "none" /\ recvOf = 0 /\ recvBy = "__init__"

NextPadding == UnpackPadding \/ PackPadding

SpecPadding == InitPadding /\ [][NextPadding]_vars

(***************************************************************************)
(* Claims about the transport, checked under SpecRecv.                     *)
(***************************************************************************)
HeaderSize == calcsize(Format("_nlmsghdr"), sizeofLong)

\* the message has the length field of its header and payload
WellFramed(m) == m.length = HeaderSize + Len(m.payload)

\* the datagram consists of two messages that are not of type 3 and a
\* message of type 3
TwoThenDone(d) ==
  /\ Len(d) = 3
  /\ d[1].type # NLMSG_DONE
  /\ d[2].type # NLMSG_DONE
  /\ d[3].type = NLMSG_DONE

\* message k of the one datagram, as Recv is to yield it: the type, and the
\* cursor over the payload bytes that follow its header
RECURSIVE BytesBefore(_, _)
BytesBefore(d, k) ==
  IF k = 1 THEN 0 ELSE BytesBefore(d, k - 1) + HeaderSize + Len(d[k - 1].payload)
SubMessage(k) ==
  LET d == sock[1]
      start == BytesBefore(d, k)
  IN  [type |-> d[k].type, datagram |-> 1, header |-> start,
       payload |-> [offset |-> start + HeaderSize,
                    length |-> start + HeaderSize + Len(d[k].payload)]]

\* what Recv yields for message k of datagram n when it frames all of the
\* messages before it: the type, and the cursor over the payload
RECURSIVE StartOf(_, _)
StartOf(d, k) == IF k = 1 THEN 0 ELSE StartOf(d, k - 1) + d[k - 1].length
YieldOf(n, k) ==
  LET d == sock[n]
      start == StartOf(d, k)
  IN  [type |-> d[k].type, datagram |-> n, header |-> start,
       payload |-> [offset |-> start + HeaderSize,
                    length |-> start + HeaderSize + Len(d[k].payload)]]

\* the socket delivers the one datagram, and Recv yields its first two
\* messages, in order, and then ends
YieldsTwoThenStops ==
  /\ nl # "fault"
  /\ reads <= 1
  /\ Len(yielded) <= 2
  /\ \A k \in DOMAIN yielded : yielded[k] = SubMessage(k)
  /\ (nl = "done" => Len(yielded) = 2)
  /\ (Len(yielded) = 2 => nl \in {"yielded", "resumed", "inner", "done"})

\* C2: a datagram of two messages of a type other than 3 and then a message
\* of type 3 makes Recv yield exactly the two, in order, and stop.  Stated
\* for the datagrams in which the sequence is to go on after the first
\* message, those whose first message carries the multi-part flag (with the
\* flag clear Recv ends after the first message, lines 228-229).
C2_TwoThenDone ==
  (/\ Len(sock) = 1 /\ TwoThenDone(sock[1])
   /\ BitSet(sock[1][1].flags, NLMSG_F_MULTI)) => YieldsTwoThenStops

\* the first message Recv framed and yielded has the multi-part flag clear
FirstYieldNotMulti ==
  /\ Len(yielded) >= 1
  /\ ~BitSet(sock[yielded[1].datagram][1].flags, NLMSG_F_MULTI)

\* C3: when the first message framed is not of type 3 and has the
\* multi-part flag clear, Recv yields that one message only, ends at the
\* next pull, and reads no datagram after the one that held it, whatever is
\* left in the datagram and in the socket.
C3_SingleMessage ==
  FirstYieldNotMulti =>
    /\ Len(yielded) = 1
    /\ yielded[1].type = sock[yielded[1].datagram][1].type
    /\ yielded[1].type # NLMSG_DONE
    /\ yielded[1].header = 0
    /\ reads = yielded[1].datagram
    /\ nl \in {"yielded", "resumed", "done"}
    /\ (stopped => nl = "done")

C3_Witness ==
  /\ FirstYieldNotMulti
  /\ stopped
  /\ Len(sock[reads]) > 1
  /\ reads < Len(sock)

\* every message of the socket has the length field of its header and
\* payload
AllWellFramed ==
  \A n \in DOMAIN sock : \A k \in DOMAIN sock[n] : WellFramed(sock[n][k])

\* the messages of the datagrams from n on, in arrival order: <<datagram,
\* place in it>>
RECURSIVE PlacesFrom(_)
PlacesFrom(n) ==
  IF n > Len(sock) THEN <<>>
  ELSE [k \in 1..Len(sock[n]) |-> <<n, k>>] \o PlacesFrom(n + 1)

\* a message that ends the sequence: of type 3, or with the multi-part flag
\* clear
Terminating(m) == m.type = NLMSG_DONE \/ ~BitSet(m.flags, NLMSG_F_MULTI)

\* what the sequence is to yield: every message before the first
\* terminating one, and the terminating one too unless it is of type 3
ToYield ==
  LET places == PlacesFrom(1)
      At(i) == sock[places[i][1]][places[i][2]]
      ends == {i \in DOMAIN places : Terminating(At(i))}
      last == IF ends = {} THEN Len(places)
              ELSE LET t == CHOOSE i \in ends : \A j \in ends : i <= j
                   IN  IF At(t).type = NLMSG_DONE THEN t - 1 ELSE t
  IN  [i \in 1..last |-> YieldOf(places[i][1], places[i][2])]

\* C17: Recv yields no message twice and yields in arrival order, for
\* every content of the datagrams; and of datagrams whose length fields are
\* right it yields the messages before the first terminating one, each
\* once, within a datagram and from one datagram to the next: a message
\* with the multi-part flag clear is yielded as the last, a message of type
\* 3 is not yielded, and once Recv has ended, or waits for a datagram that
\* has not come, all of them have been yielded.
C17_YieldsInArrivalOrder ==
  /\ \A i, j \in DOMAIN yielded :
       i < j => \/ yielded[i].datagram < yielded[j].datagram
                \/ /\ yielded[i].datagram = yielded[j].datagram
                   /\ yielded[i].header < yielded[j].header
  /\ AllWellFramed =>
       /\ nl # "fault"
       /\ Len(yielded) <= Len(ToYield)
       /\ \A k \in DOMAIN yielded : yielded[k] = ToYield[k]
       /\ (nl = "done" \/ (nl = "recv" /\ reads = Len(sock))) => yielded = ToYield

\* C4: no datagram is read before the caller asks for the first element,
\* and no request for the next element reads more than one datagram.
C4_OneReadPerPull ==
  /\ (nl = "created" => reads = 0)
  /\ readsInPull <= 1

(***************************************************************************)
(* Claims about the family registry, checked under SpecBoot.               *)
(***************************************************************************)
\* the body of the for statement is about to run for a response that has a
\* family name
AtResponse ==
  /\ ctor = "wait" /\ gnl = "yielded"
  /\ "family_name" \in DOMAIN msg[2]

\* the descriptors of the list that have the family name of the response
Known == {i \in DOMAIN msgtypes : msgtypes[i].name = rstrip(msg[2]["family_name"])}

NamesUnique(list) ==
  \A i, j \in DOMAIN list : list[i].name = list[j].name => i = j

\* C5: in the bootstrap, a response whose family name has a descriptor in
\* the list, the built-in one or one appended for an earlier response,
\* appends no descriptor, and the bootstrap goes on only if the id of the
\* response is the recorded one; after a bootstrap that succeeded no two
\* descriptors have the same name.
C5_KnownNameAsserted ==
  [][/\ (AtResponse /\ Known # {} /\ ctor' # ctor) =>
          /\ msgtypes' = msgtypes
          /\ ctor' = "for" =>
               /\ "family_id" \in DOMAIN msg[2]
               /\ \A i \in Known : msgtypes[i].id = IntOf(msg[2]["family_id"])
     /\ ctor' = "ready" => NamesUnique(msgtypes')]_vars

\* an index is about to be consulted: the id index by the dispatch of
\* GenericNetlink.Recv, the name index by the body of the for statement
Consulted ==
  \/ gnl = "next" /\ nl = "yielded"
  \/ ctor = "wait" /\ gnl = "yielded"

\* every descriptor of the list is found under its id and under its name
Indexed ==
  \A i \in DOMAIN msgtypes :
    /\ msgtypes[i].id \in DOMAIN msgtypes_by_id
    /\ msgtypes_by_id[msgtypes[i].id] = i
    /\ msgtypes[i].name \in DOMAIN msgtypes_by_name
    /\ msgtypes_by_name[msgtypes[i].name] = i

\* C6: whenever an index is consulted, every descriptor of the list is
\* found through its id in the id index and through its name in the name
\* index.
C6_IndicesCurrent == Consulted => Indexed

\* the family a response message reports, <<id, name>>: the cmd, id and
\* name that give its payload, with or without the attribute ops
FamilyOf(m) ==
  CHOOSE f \in (16..24) \X {nlctrl, <<97>>, <<98>>, <<99>>, <<100>>, <<101>>} :
    \E cmd \in {1, 2}, more \in {<<>>, OpsAttribute(sizeofLong)} :
      m.payload = FamilyPayload(sizeofLong, cmd, f[1], f[2], more)

\* the families of a registry built from the response d alone: the control
\* family, then every family of another name that d reports
RECURSIVE FamiliesOf(_)
FamiliesOf(d) ==
  IF d = <<>> THEN <<<<16, nlctrl>>>>
  ELSE LET before == FamiliesOf(SubSeq(d, 1, Len(d) - 1))
           f == FamilyOf(d[Len(d)])
       IN  IF f[2] = nlctrl THEN before ELSE Append(before, f)

\* the mapping from the k-th to the v-th component of the pairs of list,
\* the later of two pairs with one key kept
MappingOf(list_, k, v) ==
  LET list == list_
  IN  [key \in {list[i][k] : i \in DOMAIN list} |->
         list[CHOOSE i \in DOMAIN list :
                /\ list[i][k] = key
                /\ \A j \in DOMAIN list : list[j][k] = key => j <= i][v]]

\* C16: when the bootstrap has ended, the id-to-name and the name-to-id
\* mapping of the registry are those given by the response datagrams alone,
\* whatever sequence number and process id the request carried.
C16_BootstrapDeterministic ==
  ctor = "ready" =>
    LET families == FamiliesOf(sock[1])
    IN  /\ [id \in DOMAIN msgtypes_by_id |-> msgtypes[msgtypes_by_id[id]].name]
             = MappingOf(families, 1, 2)
        /\ [name \in DOMAIN msgtypes_by_name |-> msgtypes[msgtypes_by_name[name]].id]
             = MappingOf(families, 2, 1)

\* the bootstrap has ended with two families found, after a request with
\* the sequence number 0xffffffff and the process id 12345
C16_Witness ==
  /\ ctor = "ready"
  /\ Len(msgtypes) = 3
  /\ LET size == calcsize(Format("_nlmsghdr"), sizeofLong)
     IN  /\ SubSeq(sent[1], size - 2 * sizeofLong + 1, size - 2 * sizeofLong + 4)
              = <<255, 255, 255, 255>>
         /\ SubSeq(sent[1], size - sizeofLong + 1, size - sizeofLong + 2) = <<57, 48>>

(***************************************************************************)
(* Claims about the padding, checked under SpecPadding.                    *)
(***************************************************************************)
\* C11: for every attribute length L that a 16-bit field holds, the padding
\* P that Attribute.Unpack and Attribute.Pack compute makes L + P a multiple
\* of four and is one of 0, 1, 2, 3.
C11_PaddingAligns ==
  padpath \in {"Unpack", "Pack"} =>
    /\ (attrlen + padbytes) % 4 = 0
    /\ 0 <= padbytes /\ padbytes <= 3

C11_Witness ==
  /\ padpath = "Pack"
  /\ attrlen = 256 * 256 - 3
  /\ padbytes = 3

(***************************************************************************)
(* Claims about the codecs, checked under SpecCodec.                       *)
(***************************************************************************)
CursorInBounds(it) ==
  0 <= it.offset /\ it.offset <= it.length /\ it.length <= Len(data)

\* the attribute whose Unpack is on top of the stack is about to return its
\* value: both assertions of lines 119-122 hold
AttributeReturns ==
  /\ status = "running" /\ Len(stack) > 0
  /\ Top.fn = "Attribute" /\ Top.pc = "check"
  /\ AtEnd(iters[Top.sub])
  /\ AdvanceOk(iters[Top.it], Padding(Top.len))

\* the codecs that consume a fixed number of bytes, and that number
FixedSize(p) == Class(p) \in {"SingleStructParser", "StructParser", "EmptyParser"}
SizeOf(p, long) == IF Class(p) = "EmptyParser" THEN 0 ELSE calcsize(Format(p), long)

\* C1: every cursor made while decoding satisfies
\* 0 <= offset <= limit <= len(buffer) in every state, and no step
\* decreases the offset of a cursor.
C1_CursorInvariant ==
  [][/\ \A i \in DOMAIN iters : CursorInBounds(iters[i])
     /\ \A i \in DOMAIN iters' : CursorInBounds(iters[i])'
     /\ \A i \in (DOMAIN iters) \cap (DOMAIN iters') :
          iters'[i].offset >= iters[i].offset]_vars

\* C7: for every codec and legal value, as the sub-codec of an attribute,
\* Pack succeeds and Unpack of the packed bytes returns the value packed.
C7_RoundTrip ==
  flow = "pack-unpack" =>
    /\ packed # "fault"
    /\ status # "fault"
    /\ (status = "done" => result = attrs)

\* a region in canonical form: attribute records that each declare at least
\* their header, each followed by just the padding to the next multiple of
\* four, all of it zero
RECURSIVE Canonical(_)
Canonical(bytes) ==
  IF bytes = <<>> THEN TRUE
  ELSE /\ Len(bytes) >= 4
       /\ LET len == bytes[1] + 256 * bytes[2]
              end == len + Padding(len)
          IN  /\ len >= 4
              /\ end <= Len(bytes)
              /\ \A i \in (len + 1)..end : bytes[i] = 0
              /\ Canonical(SubSeq(bytes, end + 1, Len(bytes)))

\* C8: for the attribute-set codec and a region in canonical form that
\* decodes without fault, packing the decoded mapping gives the region back.
C8_Reencode ==
  (/\ flow = "unpack-pack" /\ Class(parser) = "Attributes"
   /\ status = "done" /\ packed # "no" /\ Canonical(data))
    => (packed = "yes" /\ AccumulatorStr(accumulator) = data)

\* C9: an attribute record whose declared payload size (its length field
\* less the header) differs from the number of bytes its sub-codec consumes,
\* or whose length field is below the header size, never returns a value.
C9_SizeMismatchFaults ==
  AttributeReturns =>
    LET sub_parser == Table(Top.p)[Top.type][2]
    IN  /\ Top.len >= 4
        /\ FixedSize(sub_parser) => Top.len - 4 = SizeOf(sub_parser, sizeofLong)

\* the dict packed holds the one attribute name
PackedOne(name) ==
  /\ flow = "pack-unpack" /\ packed = "yes"
  /\ DOMAIN attrs = {name}

\* C10: Attribute.Pack of (t, v) appends the header {length = 4 + n, t}, the
\* n bytes of the sub-codec and the zero padding to a multiple of four; a u32
\* of type 3 makes 8 bytes with length field 8, a 3-byte payload of type 6
\* makes length field 7 and 8 bytes.
C10_AttributeRecord ==
  LET wire == AccumulatorStr(accumulator)
  IN  /\ \A name \in DOMAIN attrs :
           PackedOne(name) =>
             LET t == AttributeIdx(parser)[name]
                 n == Len(wire) - 4 - Padding(wire[1] + 256 * wire[2])
             IN  /\ Len(accumulator) \in {2, 3, 4}
                 /\ wire[1] + 256 * wire[2] = 4 + n
                 /\ wire[3] + 256 * wire[4] = t
                 /\ Len(wire) % 4 = 0
                 /\ \A i \in (4 + n + 1)..Len(wire) : wire[i] = 0
      /\ (parser = "nl80211_attr" /\ PackedOne("ifindex")) =>
           (Len(wire) = 8 /\ SubSeq(wire, 1, 4) = <<8, 0, 3, 0>>)
      /\ (parser = "nl80211_attr" /\ PackedOne("mac") /\ Len(attrs["mac"]) = 3) =>
           (Len(wire) = 8 /\ SubSeq(wire, 1, 4) = <<7, 0, 6, 0>>
            /\ SubSeq(wire, 5, 7) = attrs["mac"] /\ wire[8] = 0)

\* the attribute records of a region, in wire order, as the headers frame
\* them: where each starts, its length field and its type
RECURSIVE RecordsFrom(_, _)
RecordsFrom(bytes, start) ==
  IF start + 4 > Len(bytes) THEN <<>>
  ELSE LET len == bytes[start + 1] + 256 * bytes[start + 2]
           type == bytes[start + 3] + 256 * bytes[start + 4]
       IN  <<[start |-> start, len |-> len, type |-> type]>>
             \o (IF len = 0 THEN <<>>
                 ELSE RecordsFrom(bytes, start + len + Padding(len)))

\* the value of a record whose codec calls no other codec
ValueOfRecord(p, r) ==
  LeafUnpack(Table(p)[r.type][2], sizeofLong, data,
             [offset |-> r.start + 4, length |-> r.start + r.len]).val

\* the root codec is an attribute set and its Unpack has returned
AttributesDone ==
  /\ flow = "unpack-pack" /\ Class(parser) = "Attributes"
  /\ status = "done"

\* C12: when Unpack of an attribute set returns, the cursor is exhausted and
\* the mapping has exactly the names of the tags of the records of the region;
\* under each name it holds the value of the last record with that tag.
C12_LastWins ==
  AttributesDone =>
    LET records == RecordsFrom(data, 0)
        NameOf(r) == Table(parser)[r.type][1]
    IN  /\ AtEnd(iters[1])
        /\ \A i \in DOMAIN records : records[i].type \in DOMAIN Table(parser)
        /\ DOMAIN result = {NameOf(records[i]) : i \in DOMAIN records}
        /\ \A i \in DOMAIN records :
             (/\ IsLeaf(Table(parser)[records[i].type][2])
              /\ \A j \in DOMAIN records :
                   records[j].type = records[i].type => j <= i)
               => result[NameOf(records[i])] = ValueOfRecord(parser, records[i])

\* two records of the tag mac with different values, the last one empty
C12_Witness ==
  /\ AttributesDone
  /\ parser = "nl80211_attr"
  /\ data = Word(5, 6) \o Word(4, 6) \o Word(4, 6)
  /\ result = [mac |-> <<>>]

\* this step ends a turn of the loop of Attributes.Unpack (Attribute.Unpack
\* returns to it) or of Array.Unpack (its assertion has passed) without a
\* fault
TurnEnds ==
  /\ status = "running" /\ Len(stack) > 0
  /\ Top.fn \in {"Attribute", "Array"} /\ Top.pc = "check"
  /\ status' # "fault"
  /\ stack' # stack

\* where the cursor of the loop stood when the turn began: the turn has
\* read a header and moved on by the rest of the length the header gives
TurnBegan == iters[Top.it].offset - Top.len

\* C19: a turn of the decode loop of the attribute-set codec or of the
\* array codec that does not end in a fault leaves the cursor further on
\* than it found it, for every header, those with a length field under 4
\* included (so that the loop cannot run for ever over a finite region).
C19_TurnAdvances ==
  [][TurnEnds => iters'[Top.it].offset > TurnBegan]_vars

(***************************************************************************)
(* Claims about Netlink.Send, checked under SpecSend.                      *)
(***************************************************************************)
\* the number in the n bytes of a datagram from place first on, least
\* significant byte first
RECURSIVE LittleEndian(_, _, _)
LittleEndian(bytes, first, n) ==
  IF n = 0 THEN 0 ELSE bytes[first] + 256 * LittleEndian(bytes, first + 1, n - 1)

\* 0x01 with the values of the names of the list or-ed in: root 0x100,
\* match 0x200, atomic 0x400, dump 0x300
FlagsValue(flags) ==
  LET Has(S) == \E i \in DOMAIN flags : flags[i] \in S
  IN  1 + (IF Has({"root", "dump"}) THEN 256 ELSE 0)
        + (IF Has({"match", "dump"}) THEN 512 ELSE 0)
        + (IF Has({"atomic"}) THEN 1024 ELSE 0)

\* C13: a Send that returns has written one datagram: a 16-byte header with
\* length = len(payload) + 16, the type given, and flags = 0x01 or-ed with
\* the values of the names given, and then the payload.
C13_SendDatagram ==
  (call.op = "Netlink.Send" /\ outcome = "returned") =>
    /\ Len(sent) = 1
    /\ Len(sent[1]) = 16 + Len(call.msg)
    /\ LittleEndian(sent[1], 1, 4) = Len(call.msg) + 16
    /\ LittleEndian(sent[1], 5, 2) = call.msgtype
    /\ LittleEndian(sent[1], 7, 2) = FlagsValue(call.flags)
    /\ SubSeq(sent[1], 17, Len(sent[1])) = call.msg

(***************************************************************************)
(* Claims about the registry and Send, checked under SpecRegistry.         *)
(***************************************************************************)
\* the places of the descriptors of a name
Discovered(name) == {i \in DOMAIN msgtypes : msgtypes[i].name = name}

\* the descriptor at place i has the codec and the commands of the call
\* made in this step
Registered(list, i) ==
  /\ list[i].parser = call'.parser
  /\ list[i].commands = call'.commands

\* C14: RegisterMsgType on a name that was never discovered raises and
\* leaves the descriptors and both indices as they were; on a discovered
\* name it returns, sets codec and commands of one descriptor of that name
\* and of no other, the descriptor found by that name and the descriptor
\* found by that descriptor's id show the change, and no id or name changes.
C14_RegisterMsgType ==
  [][(call' # call /\ call'.op = "RegisterMsgType") =>
       IF Discovered(call'.family_name) = {}
       THEN outcome' = "raised" /\ UNCHANGED registry
       ELSE /\ outcome' = "returned"
            /\ DOMAIN msgtypes' = DOMAIN msgtypes
            /\ \A j \in DOMAIN msgtypes :
                 /\ msgtypes'[j].id = msgtypes[j].id
                 /\ msgtypes'[j].name = msgtypes[j].name
            /\ \E i \in Discovered(call'.family_name) :
                 /\ Registered(msgtypes', i)
                 /\ \A j \in DOMAIN msgtypes : j # i => msgtypes'[j] = msgtypes[j]
                 /\ call'.family_name \in DOMAIN msgtypes_by_name'
                 /\ Registered(msgtypes', msgtypes_by_name'[call'.family_name])
                 /\ msgtypes[i].id \in DOMAIN msgtypes_by_id'
                 /\ Registered(msgtypes', msgtypes_by_id'[msgtypes[i].id])]_vars

\* the call made in this step is a Send that has a reason to fail: its
\* family name is in no descriptor, or the descriptor the name index gives
\* has no codec or not the command, or an attribute name is not in the
\* schema of the codec, or a flag is not a name of Netlink.flags
HasReasonToFail ==
  LET a == call'
  IN  \/ Discovered(a.msgtype) = {}
      \/ LET msgtype == msgtypes[msgtypes_by_name[a.msgtype]]
         IN  \/ msgtype.parser = "None"
             \/ a.cmd \notin DOMAIN msgtype.commands
             \/ \E name \in DOMAIN a.attrs :
                  name \notin DOMAIN AttributeIdx(msgtype.parser)
      \/ \E k \in DOMAIN a.flags : a.flags[k] \notin {"root", "match", "atomic", "dump"}

\* C20: a Send with one of these reasons to fail does fail, and a Send
\* that fails has written no datagram to the socket and has left the
\* descriptors and both indices as they were.
C20_FailedSendWritesNothing ==
  [][(call' # call /\ call'.op = "Send") =>
       /\ HasReasonToFail => outcome' = "raised"
       /\ outcome' = "raised" => sent' = sent /\ UNCHANGED registry]_vars

\* a Send has failed on the name of an attribute, after the header of the
\* generic protocol was encoded
C20_Witness ==
  /\ call # <<>> /\ call.op = "Send" /\ outcome = "raised"
  /\ call.msgtype = nlctrl /\ call.cmd = "getfamily"
  /\ "bogus" \in DOMAIN call.attrs
  /\ Len(sent) = 1

(***************************************************************************)
(* Claims about Query and the sequence it returns, checked under           *)
(* SpecQuery.                                                              *)
(***************************************************************************)
\* this step is a call of Query that returns
QueryReturns == call' # call /\ call'.op = "Query" /\ outcome' = "returned"

\* this step is a socket read of the client's time
ClientRead == ctor = "ready" /\ reads' # reads

\* C15: a Query that returns has written exactly one datagram and read
\* none, and what it returns is a Recv sequence that has not run; a socket
\* read happens only inside a next() on a sequence, and for a sequence that
\* a Query returned, after the send of that Query.
C15_QuerySendsThenReturns ==
  [][/\ QueryReturns =>
          /\ Len(sent') = Len(sent) + 1
          /\ reads' = reads
          /\ gnl' = "created" /\ nl' = "created"
          /\ recvBy' = "Query" /\ recvOf' = Len(sent')
     /\ ClientRead =>
          /\ gnl = "next"
          /\ recvBy = "Query" => 1 < recvOf /\ recvOf <= Len(sent)]_vars

\* a Query has returned, and its sequence has read the socket and yielded
C15_Witness ==
  /\ call # <<>> /\ call.op = "Query" /\ outcome = "returned"
  /\ Len(sent) = 2 /\ recvOf = 2 /\ recvBy = "Query"
  /\ reads = 3
  /\ gnl = "yielded"

\* this step drops a sequence before its end
Abandons == gnl \in {"created", "yielded"} /\ gnl' = "closed"

\* this step is a yield of the transport inside a sequence that a Query
\* returned
YieldsToClient ==
  ctor = "ready" /\ recvBy = "Query" /\ Len(yielded') = Len(yielded) + 1

\* C18: dropping a sequence before its end writes nothing to the socket
\* and changes nothing in the registry, and every message that the
\* sequence of a Query yields is one the kernel sent in answer to that
\* Query.  (A client of SpecQuery that calls Query while it holds a
\* sequence that has not ended drops that sequence.)
C18_AbandonIsSafe ==
  [][/\ Abandons => UNCHANGED <<sent, registry>>
     /\ YieldsToClient =>
          sock[yielded'[Len(yielded')].datagram][1].re = recvOf]_vars

====
